---------------------------- MODULE Spec2Model ----------------------------
(***************************************************************************)
(* Sales & revenue analytics: seller-key normalisation, reconciliation of  *)
(* the three sheets (BD, Ciudad-Region, Presupuesto) into the merged base, *)
(* and the KPI tables built on it.                                         *)
(*                                                                         *)
(* Text is a sequence of one-character strings; a missing cell is the      *)
(* marker NaN (pandas' missing value) or None.  Column names are written   *)
(* in ASCII ("Fecha Operacion" for the accented source name).              *)
(* Floating-point values are exact rationals Q(n, d) plus the IEEE values  *)
(* NaN, +inf and -inf; rounding is not modelled.                           *)
(***************************************************************************)
EXTENDS Integers, Sequences, FiniteSets, TLC

VARIABLES pc, xlsx, bd, cdrg, pres, df, tables, err, written, probe

vars == <<pc, xlsx, bd, cdrg, pres, df, tables, err, written, probe>>

(***************************************************************************)
(* Bounds of the model.                                                    *)
(***************************************************************************)
MaxLen == 5
MaxTx == 3
MaxRef == 2
\* the customers of the seller of the large portfolios
PortfolioSize == 8
\* the most tables of a registry handed to export_excel on its own
MaxNames == 3

(***************************************************************************)
(* Constants of the program.                                               *)
(***************************************************************************)
\* the customers summed into the Top-5 revenue
Top5 == 5

\* the Top-5 share, in percent, from which a portfolio is flagged HIGH
RiskThreshold == 70

\* the days without a purchase from which a customer counts as dormant
\* Excel's limit on the length of a sheet name
SheetNameLimit == 31

\* the last suffix safe_sheet_name tries: range(1, 1000)
LastSuffix == 999

DormantDays == 30

(***************************************************************************)
(* Text: characters, whitespace, digits, upper-casing, ordering.           *)
(***************************************************************************)
NaN == <<"NaN">>
None == <<"None">>

IsSpace(c) == c \in {" ", "\t"}

IsDigit(c) == c \in {"0", "1", "2", "3", "4", "5", "6", "7", "8", "9"}

\* str.upper() of one character; the result is a text ("ß" gives "SS").
UpperChar(c) ==
    CASE c = "a" -> <<"A">>
      [] c = "b" -> <<"B">>
      [] c = "c" -> <<"C">>
      [] c = "n" -> <<"N">>
      [] c = "o" -> <<"O">>
      [] c = "ß" -> <<"S", "S">>
      [] OTHER -> <<c>>

RECURSIVE Upper(_)
Upper(s) == IF s = << >> THEN << >> ELSE UpperChar(Head(s)) \o Upper(Tail(s))

\* ord() of the characters the model uses.
Ord(c) ==
    CASE c = "\t" -> 9
      [] c = " " -> 32
      [] c = "-" -> 45
      [] c = "0" -> 48
      [] c = "1" -> 49
      [] c = "2" -> 50
      [] c = "3" -> 51
      [] c = "4" -> 52
      [] c = "5" -> 53
      [] c = "6" -> 54
      [] c = "7" -> 55
      [] c = "8" -> 56
      [] c = "9" -> 57
      [] c = "A" -> 65
      [] c = "B" -> 66
      [] c = "C" -> 67
      [] c = "N" -> 78
      [] c = "O" -> 79
      [] c = "Q" -> 81
      [] c = "S" -> 83
      [] c = "a" -> 97
      [] c = "b" -> 98
      [] c = "c" -> 99
      [] c = "n" -> 110
      [] c = "o" -> 111
      [] c = "ß" -> 223
      [] OTHER -> 0

\* Python's < on str: lexicographic by code point.
RECURSIVE StrLt(_, _)
StrLt(s, t) ==
    IF t = << >> THEN FALSE
    ELSE IF s = << >> THEN TRUE
    ELSE IF Ord(Head(s)) # Ord(Head(t)) THEN Ord(Head(s)) < Ord(Head(t))
    ELSE StrLt(Tail(s), Tail(t))

\* str(value or ""): None and the empty text give "", a missing cell (float
\* nan, which is truthy) gives "nan".
StrOrEmpty(value) ==
    IF value = None THEN << >>
    ELSE IF value = NaN THEN <<"n", "a", "n">>
    ELSE value

\* str.split(): the maximal runs of non-whitespace characters.
RECURSIVE SplitFrom(_, _, _)
SplitFrom(s, cur, acc) ==
    IF s = << >> THEN (IF cur = << >> THEN acc ELSE Append(acc, cur))
    ELSE IF IsSpace(Head(s))
         THEN SplitFrom(Tail(s), << >>, IF cur = << >> THEN acc ELSE Append(acc, cur))
         ELSE SplitFrom(Tail(s), Append(cur, Head(s)), acc)

Split(s) == SplitFrom(s, << >>, << >>)

\* " ".join(parts)
RECURSIVE Join(_)
Join(parts) ==
    IF parts = << >> THEN << >>
    ELSE IF Len(parts) = 1 THEN parts[1]
    ELSE parts[1] \o <<" ">> \o Join(Tail(parts))

norm_spaces(value) == Join(Split(StrOrEmpty(value)))

RECURSIVE DropWhileDigit(_)
DropWhileDigit(s) ==
    IF s # << >> /\ IsDigit(Head(s)) THEN DropWhileDigit(Tail(s)) ELSE s

RECURSIVE DropWhileSpace(_)
DropWhileSpace(s) ==
    IF s # << >> /\ IsSpace(Head(s)) THEN DropWhileSpace(Tail(s)) ELSE s

\* re.sub(r"^\d+\s*", "", s): one leading run of digits and the whitespace
\* after it; a text that does not start with a digit is left alone.
StripLeadingDigits(s) ==
    IF s # << >> /\ IsDigit(Head(s)) THEN DropWhileSpace(DropWhileDigit(s)) ELSE s

\* normalize_vendor_name with the pattern "^\d+" and no second norm_spaces
normalize_vendor_name_digits_only(raw, remove_leading_digits) ==
    LET s == norm_spaces(raw)
        t == IF remove_leading_digits THEN DropWhileDigit(s) ELSE s
    IN  Upper(t)

normalize_vendor_name(raw, remove_leading_digits) ==
    LET s == norm_spaces(raw)
        t == IF remove_leading_digits THEN StripLeadingDigits(s) ELSE s
    IN  Upper(norm_spaces(t))

\* presupuesto_to_common_key moving the last token to the front
presupuesto_to_common_key_last_first(raw) ==
    LET s == normalize_vendor_name(raw, FALSE)
        parts == Split(s)
    IN  IF s = << >> THEN s
        ELSE IF Len(parts) >= 2
             THEN Join(<<parts[Len(parts)]>> \o SubSeq(parts, 1, Len(parts) - 1))
        ELSE s

presupuesto_to_common_key(raw) ==
    LET s == normalize_vendor_name(raw, FALSE)
        parts == Split(s)
    IN  IF s = << >> THEN s
        ELSE IF Len(parts) >= 2 THEN Join(Tail(parts) \o <<parts[1]>>)
        ELSE s


(***************************************************************************)
(* Numbers: float64 values as exact rationals plus NaN and the infinities. *)
(***************************************************************************)
RECURSIVE Gcd(_, _)
Gcd(a, b) == IF b = 0 THEN a ELSE Gcd(b, a % b)

Abs(x) == IF x < 0 THEN -x ELSE x

\* The rational n/d (d # 0) in lowest terms with a positive denominator.
Q(n, d) ==
    LET g == Gcd(Abs(n), Abs(d))
        s == IF d < 0 THEN -1 ELSE 1
    IN  [k |-> "num", n |-> (s * n) \div g, d |-> Abs(d) \div g]

NaNf == [k |-> "nan", n |-> 0, d |-> 1]

PosInf == [k |-> "inf", n |-> 1, d |-> 1]

NegInf == [k |-> "inf", n |-> -1, d |-> 1]

IsNum(x) == x.k = "num"

isna(x) == x.k = "nan"

Sign(i) == IF i > 0 THEN 1 ELSE IF i < 0 THEN -1 ELSE 0

\* float addition
FAdd(x, y) ==
    IF isna(x) \/ isna(y) THEN NaNf
    ELSE IF x.k = "inf" /\ y.k = "inf" THEN (IF x.n = y.n THEN x ELSE NaNf)
    ELSE IF x.k = "inf" THEN x
    ELSE IF y.k = "inf" THEN y
    ELSE Q(x.n * y.d + y.n * x.d, x.d * y.d)

\* float negation
FNeg(x) == IF isna(x) THEN NaNf ELSE [x EXCEPT !.n = -x.n]

\* float subtraction
FSub(x, y) == FAdd(x, FNeg(y))

\* float multiplication
FMul(x, y) ==
    IF isna(x) \/ isna(y) THEN NaNf
    ELSE IF x.k = "inf" \/ y.k = "inf"
         THEN (IF x.n = 0 \/ y.n = 0 THEN NaNf
               ELSE IF Sign(x.n) * Sign(y.n) > 0 THEN PosInf ELSE NegInf)
    ELSE Q(x.n * y.n, x.d * y.d)

\* float division of pandas/numpy columns: x/0 is +inf or -inf, 0/0 is NaN.
FDiv(x, y) ==
    IF isna(x) \/ isna(y) THEN NaNf
    ELSE IF x.k = "inf" /\ y.k = "inf" THEN NaNf
    ELSE IF x.k = "inf" THEN (IF y.n < 0 THEN FNeg(x) ELSE x)
    ELSE IF y.k = "inf" THEN Q(0, 1)
    ELSE IF y.n = 0
         THEN (IF x.n = 0 THEN NaNf ELSE IF x.n > 0 THEN PosInf ELSE NegInf)
    ELSE Q(x.n * y.d, x.d * y.n)

\* float <; every comparison with NaN is false.
FLt(x, y) ==
    IF isna(x) \/ isna(y) THEN FALSE
    ELSE IF x.k = "inf" THEN x.n < 0 /\ ~(y.k = "inf" /\ y.n < 0)
    ELSE IF y.k = "inf" THEN y.n > 0
    ELSE x.n * y.d < y.n * x.d

\* float >=
FGe(x, y) == ~isna(x) /\ ~isna(y) /\ ~FLt(x, y)

\* Series.sum(): missing values are skipped, the empty sum is 0.
RECURSIVE FSum(_)
FSum(xs) ==
    IF xs = << >> THEN Q(0, 1)
    ELSE IF isna(Head(xs)) THEN FSum(Tail(xs))
    ELSE FAdd(Head(xs), FSum(Tail(xs)))

(***************************************************************************)
(* Cells of a loaded sheet: a number, a text or a missing value.           *)
(***************************************************************************)
Num(i) == [t |-> "num", v |-> Q(i, 1)]

Txt(s) == [t |-> "str", v |-> s]

Missing == [t |-> "nan", v |-> NaNf]

RECURSIVE ParseDigits(_, _)
ParseDigits(s, acc) ==
    IF s = << >> THEN acc
    ELSE ParseDigits(Tail(s), 10 * acc + (Ord(Head(s)) - 48))

\* pd.to_numeric(errors="coerce") of one cell: a number stays, a text of
\* digits is parsed, anything else becomes NaN.
to_numeric(cell) ==
    IF cell.t = "num" THEN cell.v
    ELSE IF cell.t = "str" /\ cell.v # << >> /\ \A i \in DOMAIN cell.v : IsDigit(cell.v[i])
         THEN Q(ParseDigits(cell.v, 0), 1)
    ELSE NaNf

\* Series.fillna(value)
fillna(x, value) == IF isna(x) THEN value ELSE x

(***************************************************************************)
(* Dates and periods.                                                      *)
(***************************************************************************)
NaT == [y |-> 0, m |-> 0, d |-> 0]

Date(y, m, d) == [y |-> y, m |-> m, d |-> d]

IsLeap(y) == (y % 4 = 0 /\ y % 100 # 0) \/ y % 400 = 0

DaysInMonth(y, m) ==
    IF m = 2 THEN (IF IsLeap(y) THEN 29 ELSE 28)
    ELSE IF m \in {4, 6, 9, 11} THEN 30 ELSE 31

\* to_datetime that puts the epoch where the cell is no date
to_datetime_epoch(c) ==
    IF c.y >= 1 /\ c.m \in 1..12 /\ c.d >= 1 /\ c.d <= DaysInMonth(c.y, c.m)
    THEN c ELSE Date(1970, 1, 1)

\* pd.to_datetime(errors="coerce") of one cell: a calendar date stays, a
\* missing cell or a text that is no calendar date becomes NaT.
to_datetime(c) ==
    IF c.y >= 1 /\ c.m \in 1..12 /\ c.d >= 1 /\ c.d <= DaysInMonth(c.y, c.m)
    THEN c ELSE NaT

\* dt.to_period("M"): the ordinal of the calendar month.
to_period_M(dt) == (dt.y - 1970) * 12 + (dt.m - 1)

\* dt.to_period("Q"): the ordinal of the calendar quarter.
to_period_Q(dt) == (dt.y - 1970) * 4 + ((dt.m - 1) \div 3)

DigitChars == <<"0", "1", "2", "3", "4", "5", "6", "7", "8", "9">>

\* str(n) of a natural number
RECURSIVE StrNat(_)
StrNat(n) == IF n < 10 THEN <<DigitChars[n + 1]>> ELSE StrNat(n \div 10) \o <<DigitChars[(n % 10) + 1]>>

\* str(Period) of a month: "2024-03"
MonthStr(p) ==
    LET y == 1970 + (p \div 12)
        m == (p % 12) + 1
    IN  StrNat(y) \o <<"-">> \o (IF m < 10 THEN <<"0">> ELSE << >>) \o StrNat(m)

\* str(Period) of a quarter: "2024Q1"
QuarterStr(p) == StrNat(1970 + (p \div 4)) \o <<"Q">> \o StrNat((p % 4) + 1)

(***************************************************************************)
(* Tables: an ordered list of column names and a sequence of rows, each    *)
(* row a function from column name to cell.                                *)
(***************************************************************************)
Range(s) == {s[i] : i \in DOMAIN s}

Restrict(row, names) == [c \in (DOMAIN row) \cap names |-> row[c]]

Sheet(cols, rows) ==
    [cols |-> cols, rows |-> [i \in DOMAIN rows |-> Restrict(rows[i], Range(cols))]]

EmptySheet == [cols |-> << >>, rows |-> << >>]

RECURSIVE Flatten(_)
Flatten(ss) == IF ss = << >> THEN << >> ELSE Head(ss) \o Flatten(Tail(ss))

RECURSIVE SelectIdx(_, _, _)
\* the indices i in lo..Len(s) with keep[i], ascending
SelectIdx(keep, lo, hi) ==
    IF lo > hi THEN << >>
    ELSE (IF keep[lo] THEN <<lo>> ELSE << >>) \o SelectIdx(keep, lo + 1, hi)

\* the rows of s whose flag is set, in order (boolean indexing)
Filter(s, keep) ==
    LET idx == SelectIdx(keep, 1, Len(s)) IN [j \in DOMAIN idx |-> s[idx[j]]]

(***************************************************************************)
(* Errors raised by the pipeline.                                          *)
(***************************************************************************)
NoError == [type |-> "none", what |-> "", table |-> "", missing |-> << >>, available |-> << >>]

Raise(type, what, table, missing, available) ==
    [type |-> type, what |-> what, table |-> table, missing |-> missing,
     available |-> available]

\* require_columns with the two lists of the message exchanged
require_columns_swapped(sheet, cols, df_name) ==
    LET missing == SelectSeq(cols, LAMBDA c : c \notin Range(sheet.cols))
    IN  IF missing # << >>
        THEN Raise("ValueError", "Faltan columnas", df_name, sheet.cols, missing)
        ELSE NoError

\* raise ValueError("Faltan columnas en '<df_name>': <missing>. Columnas
\* disponibles: <columns>") when a required column is absent.
require_columns(sheet, cols, df_name) ==
    LET missing == SelectSeq(cols, LAMBDA c : c \notin Range(sheet.cols))
    IN  IF missing # << >>
        THEN Raise("ValueError", "Faltan columnas", df_name, missing, sheet.cols)
        ELSE NoError

BDRequired == <<"Fecha Operacion", "Vendedor", "Ingreso Operacion", "No. Cliente", "Guia">>

CdrgRequired == <<"NOMBRE", "CIUDAD", "REGION">>

PresRequired == <<"Vendedor", "Presupuesto">>

RequiredSheets == <<"BD", "Ciudad-Region", "Presupuesto">>

(***************************************************************************)
(* prepare_base: clean, key, deduplicate, merge, coerce.                   *)
(***************************************************************************)
\* drop_duplicates left out
drop_duplicates_none(rows, key) == rows

\* drop_duplicates() without subset: only a row equal in every column to an
\* earlier one is dropped
drop_duplicates_whole_row(rows, key) ==
    Filter(rows, [i \in DOMAIN rows |-> \A j \in 1..(i - 1) : rows[j] # rows[i]])

\* drop_duplicates with keep="last"
drop_duplicates_last(rows, key) ==
    Filter(rows, [i \in DOMAIN rows |->
                    \A j \in (i + 1)..Len(rows) : rows[j][key] # rows[i][key]])

\* DataFrame.drop_duplicates(subset=[key]): keep="first".
drop_duplicates(rows, key) ==
    Filter(rows, [i \in DOMAIN rows |-> \A j \in 1..(i - 1) : rows[j][key] # rows[i][key]])

\* the element of a one-element set: in Only({e(x) : x \in {v}}) the frame v
\* is computed once and e uses its value, as an assignment to a local does
Only(S) == CHOOSE x \in S : TRUE

\* left.merge(right, on=key, how="left"): every left row, in the left order,
\* once per right row with the same key, or once with the right columns
\* missing when there is none.
merge_left(left, right, key, nulls) ==
    Only({ Flatten([i \in DOMAIN l |->
                LET hits == SelectSeq(r, LAMBDA x : x[key] = l[i][key])
                IN  IF hits = << >> THEN <<l[i] @@ nulls>>
                    ELSE [j \in DOMAIN hits |-> l[i] @@ hits[j]]]) :
           l \in {left}, r \in {right} })

\* the BD rows with the parsed date, the period columns and the key
bd_keyed(rows) ==
    [i \in DOMAIN rows |->
        LET dt == to_datetime(rows[i]["Fecha Operacion"])
        IN  ("Fecha Operacion" :> dt) @@
            ("Month_Period" :> to_period_M(dt)) @@
            ("Quarter_Period" :> to_period_Q(dt)) @@
            ("Month" :> MonthStr(to_period_M(dt))) @@
            ("Quarter" :> QuarterStr(to_period_Q(dt))) @@
            ("Vendedor_key" :> normalize_vendor_name(rows[i]["Vendedor"], FALSE)) @@
            rows[i]]

\* cdrg_keyed without remove_leading_digits
cdrg_keyed_with_digits(rows) ==
    [i \in DOMAIN rows |->
        ("Vendedor_key" :> normalize_vendor_name(rows[i]["NOMBRE"], FALSE)) @@
        ("CIUDAD" :> rows[i]["CIUDAD"]) @@ ("REGION" :> rows[i]["REGION"])]

\* cdrg[["Vendedor_key", "CIUDAD", "REGION"]] with the directory key
cdrg_keyed(rows) ==
    [i \in DOMAIN rows |->
        ("Vendedor_key" :> normalize_vendor_name(rows[i]["NOMBRE"], TRUE)) @@
        ("CIUDAD" :> rows[i]["CIUDAD"]) @@ ("REGION" :> rows[i]["REGION"])]

\* pres[["Vendedor_key", "Presupuesto"]] with the budget key
pres_keyed(rows) ==
    [i \in DOMAIN rows |->
        ("Vendedor_key" :> presupuesto_to_common_key(rows[i]["Vendedor"])) @@
        ("Presupuesto" :> rows[i]["Presupuesto"])]

\* coerce_numeric with fillna(0.0) on the budget as well
coerce_numeric_budget_zero(rows) ==
    [i \in DOMAIN rows |->
        ("Ingreso Operacion" :> fillna(to_numeric(rows[i]["Ingreso Operacion"]), Q(0, 1))) @@
        ("Presupuesto" :> fillna(to_numeric(rows[i]["Presupuesto"]), Q(0, 1))) @@
        rows[i]]

\* revenue to number with 0.0 for what is not one; budget to number or NaN
coerce_numeric(rows) ==
    [i \in DOMAIN rows |->
        ("Ingreso Operacion" :> fillna(to_numeric(rows[i]["Ingreso Operacion"]), Q(0, 1))) @@
        ("Presupuesto" :> to_numeric(rows[i]["Presupuesto"])) @@
        rows[i]]

InvalidDates == Raise("ValueError", "Invalid dates found in BD (Fecha Operacion)", "BD", << >>, << >>)

\* the result of prepare_base: the error raised, or the merged base
prepare_base(b, c, p) ==
    LET e1 == require_columns(b, BDRequired, "BD")
        e2 == require_columns(c, CdrgRequired, "Ciudad-Region")
        e3 == require_columns(p, PresRequired, "Presupuesto")
    IN  IF e1 # NoError THEN [err |-> e1, df |-> << >>]
        ELSE IF e2 # NoError THEN [err |-> e2, df |-> << >>]
        ELSE IF e3 # NoError THEN [err |-> e3, df |-> << >>]
        ELSE IF \E i \in DOMAIN b.rows : to_datetime(b.rows[i]["Fecha Operacion"]) = NaT
        THEN [err |-> InvalidDates, df |-> << >>]
        ELSE LET cdrg_min == drop_duplicates(cdrg_keyed(c.rows), "Vendedor_key")
                 pres_min == drop_duplicates(pres_keyed(p.rows), "Vendedor_key")
                 m1 == merge_left(bd_keyed(b.rows), cdrg_min, "Vendedor_key",
                                  ("CIUDAD" :> NaN) @@ ("REGION" :> NaN))
                 m2 == merge_left(m1, pres_min, "Vendedor_key",
                                  ("Presupuesto" :> Missing))
             IN  [err |-> NoError, df |-> coerce_numeric(m2)]
(***************************************************************************)
(* groupby, sort_values and pct_change on sequences of rows.               *)
(***************************************************************************)
PeriodCols == {"Month_Period", "Quarter_Period"}

\* a key cell is missing (period cells never are; the others are text)
IsNullCell(col, v) == IF col \in PeriodCols THEN FALSE ELSE v = NaN

\* < on the cells of a column: periods by ordinal, text as Python str
CellLt(col, a, b) == IF col \in PeriodCols THEN a < b ELSE StrLt(a, b)

KeyOf(row, keys) == [i \in DOMAIN keys |-> row[keys[i]]]

RECURSIVE KeyLtFrom(_, _, _, _)
KeyLtFrom(keys, x, y, i) ==
    IF i > Len(keys) THEN FALSE
    ELSE IF x[i] = y[i] THEN KeyLtFrom(keys, x, y, i + 1)
    ELSE CellLt(keys[i], x[i], y[i])

\* lexicographic > on key tuples
KeyGt(keys, x, y) == KeyLtFrom(keys, y, x, 1)

\* lexicographic < on key tuples
KeyLt(keys, x, y) == KeyLtFrom(keys, x, y, 1)

RECURSIVE SortKeys(_, _)
\* the key tuples of S in ascending order
SortKeys(keys, S) ==
    IF S = {} THEN << >>
    ELSE LET m == CHOOSE x \in S : \A y \in S \ {x} : KeyLt(keys, x, y)
         IN  <<m>> \o SortKeys(keys, S \ {m})

\* the rows that groupby keeps: dropna=True drops a row with a missing key
group_rows(rows, keys) ==
    SelectSeq(rows, LAMBDA r : \A i \in DOMAIN keys : ~IsNullCell(keys[i], r[keys[i]]))

\* the groups of df.groupby(keys): the distinct keys, sorted (sort=True)
group_keys(rows, keys) ==
    SortKeys(keys, {KeyOf(r, keys) : r \in Range(group_rows(rows, keys))})

\* the rows of one group, in frame order
group_of(rows, keys, k) == SelectSeq(group_rows(rows, keys), LAMBDA r : KeyOf(r, keys) = k)

Column(rows, col) == [i \in DOMAIN rows |-> rows[i][col]]

\* the key tuple k as the key columns of a result row
KeyColumns(keys, k) == [c \in Range(keys) |-> k[CHOOSE i \in DOMAIN keys : keys[i] = c]]

\* df.groupby(keys, as_index=False)[value].sum().rename(columns={value: out})
groupby_sum(rows, keys, value, out) ==
    LET ks == group_keys(rows, keys)
    IN  [g \in DOMAIN ks |->
            (out :> FSum(Column(group_of(rows, keys, ks[g]), value))) @@
            KeyColumns(keys, ks[g])]

RECURSIVE InsertSorted(_, _, _)
\* r put into the sorted sequence s after every row that is not greater
InsertSorted(by, s, r) ==
    IF s = << >> THEN <<r>>
    ELSE IF KeyLt(by, KeyOf(r, by), KeyOf(Head(s), by)) THEN <<r>> \o s
    ELSE <<Head(s)>> \o InsertSorted(by, Tail(s), r)

RECURSIVE SortFrom(_, _, _)
SortFrom(by, rows, acc) ==
    IF rows = << >> THEN acc
    ELSE SortFrom(by, Tail(rows), InsertSorted(by, acc, Head(rows)))

\* DataFrame.sort_values(by): ascending, rows with equal keys keep their order
sort_values(rows, by) == SortFrom(by, rows, << >>)

\* the change against the calendar quarter just before: NaN when the group
\* has no row for it
pct_change_calendar(rows, within, value) ==
    [i \in DOMAIN rows |->
        LET prev == {j \in 1..(i - 1) :
                        /\ KeyOf(rows[j], within) = KeyOf(rows[i], within)
                        /\ rows[j]["Quarter_Period"] = rows[i]["Quarter_Period"] - 1}
        IN  IF prev = {} THEN NaNf
            ELSE LET j == CHOOSE x \in prev : TRUE
                 IN  FSub(FDiv(rows[i][value], rows[j][value]), Q(1, 1))]

\* Series.pct_change() within the groups of `within` (the whole column when
\* `within` is empty): value / previous value of the group - 1, NaN for the
\* first row of a group.
pct_change(rows, within, value) ==
    [i \in DOMAIN rows |->
        LET prev == {j \in 1..(i - 1) : KeyOf(rows[j], within) = KeyOf(rows[i], within)}
        IN  IF prev = {} THEN NaNf
            ELSE LET j == CHOOSE x \in prev : \A y \in prev : y <= x
                 IN  FSub(FDiv(rows[i][value], rows[j][value]), Q(1, 1))]

\* frame[cols]: the named columns only
Select(rows, cols) == [i \in DOMAIN rows |-> Restrict(rows[i], Range(cols))]

\* a named table of the registry
Table(name, rows) == [name |-> name, rows |-> rows]

\* the revenue column of the merged base
Ingreso == "Ingreso Operacion"

(***************************************************************************)
(* KPI 1: monthly revenue.                                                 *)
(***************************************************************************)
\* a grouped monthly table with its Month text
with_month(rows) ==
    [i \in DOMAIN rows |-> ("Month" :> MonthStr(rows[i]["Month_Period"])) @@ rows[i]]

kpi_monthly_revenue(d) ==
    LET overall ==
            sort_values(groupby_sum(d, <<"Month_Period">>, Ingreso, "Monthly_Revenue"),
                        <<"Month_Period">>)
        by_region ==
            sort_values(groupby_sum(d, <<"Month_Period", "REGION">>, Ingreso,
                                    "Monthly_Revenue"),
                        <<"Month_Period", "REGION">>)
        by_city ==
            sort_values(groupby_sum(d, <<"Month_Period", "REGION", "CIUDAD">>, Ingreso,
                                    "Monthly_Revenue"),
                        <<"Month_Period", "REGION", "CIUDAD">>)
        by_seller ==
            sort_values(groupby_sum(d, <<"Month_Period", "Vendedor_key", "REGION", "CIUDAD">>,
                                    Ingreso, "Monthly_Revenue"),
                        <<"Month_Period", "Vendedor_key">>)
    IN  << Table("KPI1_Monthly_Total",
                 Select(with_month(overall), <<"Month", "Monthly_Revenue">>)),
           Table("KPI1_Monthly_Region",
                 Select(with_month(by_region), <<"Month", "REGION", "Monthly_Revenue">>)),
           Table("KPI1_Monthly_City",
                 Select(with_month(by_city),
                        <<"Month", "REGION", "CIUDAD", "Monthly_Revenue">>)),
           Table("KPI1_Monthly_Seller",
                 Select(with_month(by_seller),
                        <<"Month", "Vendedor_key", "REGION", "CIUDAD", "Monthly_Revenue">>)) >>

(***************************************************************************)
(* KPI 2: quarterly revenue and growth.                                    *)
(***************************************************************************)
\* with_growth with pct_change on the whole column, whatever the groups
with_growth_ungrouped(rows, within) ==
    LET pct == pct_change(rows, << >>, "Quarterly_Revenue")
    IN  [i \in DOMAIN rows |->
            ("% Quarterly_Growth" :> FMul(pct[i], Q(100, 1))) @@
            ("Quarter" :> QuarterStr(rows[i]["Quarter_Period"])) @@
            rows[i]]

\* the grouped quarterly rows with "% Quarterly_Growth" = pct_change * 100
\* within the groups of `within`, and the Quarter text
with_growth(rows, within) ==
    LET pct == pct_change(rows, within, "Quarterly_Revenue")
    IN  [i \in DOMAIN rows |->
            ("% Quarterly_Growth" :> FMul(pct[i], Q(100, 1))) @@
            ("Quarter" :> QuarterStr(rows[i]["Quarter_Period"])) @@
            rows[i]]

kpi_quarterly_growth(d) ==
    LET overall ==
            sort_values(groupby_sum(d, <<"Quarter_Period">>, Ingreso, "Quarterly_Revenue"),
                        <<"Quarter_Period">>)
        by_region ==
            sort_values(groupby_sum(d, <<"Quarter_Period", "REGION">>, Ingreso,
                                    "Quarterly_Revenue"),
                        <<"REGION", "Quarter_Period">>)
        by_seller ==
            sort_values(groupby_sum(d, <<"Quarter_Period", "Vendedor_key", "REGION", "CIUDAD">>,
                                    Ingreso, "Quarterly_Revenue"),
                        <<"Vendedor_key", "Quarter_Period">>)
    IN  << Table("KPI2_Quarterly_Total",
                 Select(with_growth(overall, << >>),
                        <<"Quarter", "Quarterly_Revenue", "% Quarterly_Growth">>)),
           Table("KPI2_Quarterly_Region",
                 Select(with_growth(by_region, <<"REGION">>),
                        <<"Quarter", "REGION", "Quarterly_Revenue", "% Quarterly_Growth">>)),
           Table("KPI2_Quarterly_Seller",
                 Select(with_growth(by_seller, <<"Vendedor_key">>),
                        <<"Quarter", "Vendedor_key", "REGION", "CIUDAD",
                          "Quarterly_Revenue", "% Quarterly_Growth">>)) >>

(***************************************************************************)
(* KPI 3 and 4: annual projection and budget compliance.                   *)
(***************************************************************************)
\* Series.nunique(): the number of distinct values that are not missing
nunique(rows, col) ==
    Cardinality({rows[i][col] : i \in {j \in DOMAIN rows : ~IsNullCell(col, rows[j][col])}})

\* the "first" aggregation of a numeric column: the first value of the group
\* that is not missing, NaN when there is none
first_valid(xs) ==
    IF \A i \in DOMAIN xs : isna(xs[i]) THEN NaNf
    ELSE xs[CHOOSE i \in DOMAIN xs : ~isna(xs[i]) /\ \A j \in 1..(i - 1) : isna(xs[j])]

\* Series.replace(0, np.nan)
replace_zero(x) == IF x = Q(0, 1) THEN NaNf ELSE x

RECURSIVE InsertDesc(_, _, _)
\* r put into the descending sequence s after every row that is not smaller
InsertDesc(col, s, r) ==
    IF s = << >> THEN <<r>>
    ELSE IF FLt(Head(s)[col], r[col]) THEN <<r>> \o s
    ELSE <<Head(s)>> \o InsertDesc(col, Tail(s), r)

RECURSIVE SortDescFrom(_, _, _)
SortDescFrom(col, rows, acc) ==
    IF rows = << >> THEN acc
    ELSE SortDescFrom(col, Tail(rows), InsertDesc(col, acc, Head(rows)))

\* DataFrame.sort_values(col, ascending=False) on a float column: descending,
\* the rows with NaN last (na_position="last"), equal rows in frame order
sort_values_desc(rows, col) ==
    SortDescFrom(col, SelectSeq(rows, LAMBDA r : ~isna(r[col])), << >>)
        \o SelectSeq(rows, LAMBDA r : isna(r[col]))

Min(S) == CHOOSE x \in S : \A y \in S : x <= y

Max(S) == CHOOSE x \in S : \A y \in S : y <= x

NoMonths == Raise("ValueError", "No months with data to calculate projection.", "", << >>, << >>)

\* the per-seller compliance rows
compliance_by_seller(d) ==
    LET keys == <<"Vendedor_key", "REGION", "CIUDAD">>
        ks == group_keys(d, keys)
        grouped ==
            [g \in DOMAIN ks |->
                LET rows == group_of(d, keys, ks[g])
                IN  ("Accumulated_Revenue" :> FSum(Column(rows, Ingreso))) @@
                    ("Months_With_Data" :> nunique(rows, "Month_Period")) @@
                    ("Budget" :> first_valid(Column(rows, "Presupuesto"))) @@
                    KeyColumns(keys, ks[g])]
        derived ==
            [g \in DOMAIN grouped |->
                LET r == grouped[g]
                    avg == FDiv(r["Accumulated_Revenue"],
                                replace_zero(Q(r["Months_With_Data"], 1)))
                    proj == FMul(avg, Q(12, 1))
                IN  ("Avg_Monthly_Revenue" :> avg) @@
                    ("Annual_Projection" :> proj) @@
                    ("% Budget_Compliance" :>
                        FMul(FDiv(r["Accumulated_Revenue"], r["Budget"]), Q(100, 1))) @@
                    ("% Projected_Compliance" :>
                        FMul(FDiv(proj, r["Budget"]), Q(100, 1))) @@
                    r]
    IN  sort_values_desc(derived, "% Budget_Compliance")

\* kpi_projection without the check of months_with_data
kpi_projection_unguarded(d) ==
    [err |-> NoError,
     tables |-> << Table("KPI3_Projection_Total", << >>),
                   Table("KPI4_Compliance_Seller", compliance_by_seller(d)) >>]

\* the result of kpi_projection: the error raised, or its two tables
kpi_projection(d) ==
    LET months_with_data == nunique(d, "Month_Period")
    IN  IF months_with_data <= 0 THEN [err |-> NoMonths, tables |-> << >>]
        ELSE LET accumulated_revenue == FSum(Column(d, Ingreso))
                 avg_monthly_revenue == FDiv(accumulated_revenue, Q(months_with_data, 1))
                 annual_projection == FMul(avg_monthly_revenue, Q(12, 1))
                 months == Range(Column(d, "Month_Period"))
                 total ==
                    << ("Start_Month" :> MonthStr(Min(months))) @@
                       ("End_Month" :> MonthStr(Max(months))) @@
                       ("Months_With_Data" :> months_with_data) @@
                       ("Accumulated_Revenue" :> accumulated_revenue) @@
                       ("Avg_Monthly_Revenue" :> avg_monthly_revenue) @@
                       ("Annual_Projection" :> annual_projection) >>
             IN  [err |-> NoError,
                  tables |-> << Table("KPI3_Projection_Total", total),
                                Table("KPI4_Compliance_Seller", compliance_by_seller(d)) >>]

(***************************************************************************)
(* Exercise 3: portfolio concentration and customers to reactivate.        *)
(***************************************************************************)
\* the rank with ascending=True: the smallest value has rank 1
rank_first_asc(rows, within, value) ==
    [i \in DOMAIN rows |->
        1 + Cardinality({j \in DOMAIN rows :
                /\ KeyOf(rows[j], within) = KeyOf(rows[i], within)
                /\ \/ FLt(rows[j][value], rows[i][value])
                   \/ (j < i /\ rows[j][value] = rows[i][value])})]

\* Series.rank(method="first", ascending=False) within the groups of `within`:
\* one plus the rows of the group with a greater value, plus the earlier rows
\* of the group with the same value
rank_first_desc(rows, within, value) ==
    [i \in DOMAIN rows |->
        1 + Cardinality({j \in DOMAIN rows :
                /\ KeyOf(rows[j], within) = KeyOf(rows[i], within)
                /\ \/ FLt(rows[i][value], rows[j][value])
                   \/ (j < i /\ rows[j][value] = rows[i][value])})]

\* the first text of the group that is not missing
first_text(xs) ==
    IF \A i \in DOMAIN xs : xs[i] = NaN THEN NaN
    ELSE xs[CHOOSE i \in DOMAIN xs : xs[i] # NaN /\ \A j \in 1..(i - 1) : xs[j] = NaN]

RECURSIVE DaysBeforeMonth(_, _)
DaysBeforeMonth(y, m) ==
    IF m <= 1 THEN 0 ELSE DaysInMonth(y, m - 1) + DaysBeforeMonth(y, m - 1)

\* date.toordinal(): the days from 0001-01-01, which is day 1
ToOrdinal(dt) ==
    LET y == dt.y - 1
    IN  365 * y + (y \div 4) - (y \div 100) + (y \div 400) + DaysBeforeMonth(dt.y, dt.m) + dt.d

\* the latest and the earliest of a set of dates
MaxDate(S) == CHOOSE x \in S : \A y \in S : ToOrdinal(y) <= ToOrdinal(x)

MinDate(S) == CHOOSE x \in S : \A y \in S : ToOrdinal(x) <= ToOrdinal(y)

RECURSIVE InsertFloat(_, _)
InsertFloat(s, x) ==
    IF s = << >> THEN <<x>>
    ELSE IF FLt(x, Head(s)) THEN <<x>> \o s
    ELSE <<Head(s)>> \o InsertFloat(Tail(s), x)

RECURSIVE SortFloats(_)
SortFloats(xs) == IF xs = << >> THEN << >> ELSE InsertFloat(SortFloats(Tail(xs)), Head(xs))

\* Series.quantile(0.80), linear interpolation between the two nearest ranks
quantile80(xs) ==
    LET v == SortFloats(xs)
        n == Len(v)
        lo == (4 * (n - 1)) \div 5
        frac == Q((4 * (n - 1)) % 5, 5)
    IN  IF n = 0 THEN NaNf
        ELSE IF lo + 2 > n THEN v[lo + 1]
        ELSE FAdd(v[lo + 1], FMul(frac, FSub(v[lo + 2], v[lo + 1])))

RECURSIVE InsertDesc2(_, _, _, _)
\* r put into s, descending by col1 then col2, after the rows that are equal
InsertDesc2(col1, col2, s, r) ==
    IF s = << >> THEN <<r>>
    ELSE IF \/ Head(s)[col1] < r[col1]
            \/ (Head(s)[col1] = r[col1] /\ FLt(Head(s)[col2], r[col2]))
         THEN <<r>> \o s
    ELSE <<Head(s)>> \o InsertDesc2(col1, col2, Tail(s), r)

RECURSIVE SortDesc2From(_, _, _, _)
SortDesc2From(col1, col2, rows, acc) ==
    IF rows = << >> THEN acc
    ELSE SortDesc2From(col1, col2, Tail(rows), InsertDesc2(col1, col2, acc, Head(rows)))

\* sort_values([col1, col2], ascending=[False, False]): col1 an integer
\* column, col2 a float column
sort_values_desc2(rows, col1, col2) == SortDesc2From(col1, col2, rows, << >>)

\* 1) accumulated revenue per seller
seller_accumulated(d) ==
    groupby_sum(d, <<"Vendedor_key", "CIUDAD", "REGION">>, Ingreso, "Accumulated_Revenue")

\* 2), 3) and 5) revenue per seller and customer with the seller's total, the
\* customer's share of it and the customer's rank within the seller
portfolio_seller_customer(d) ==
    LET merged ==
            merge_left(groupby_sum(d, <<"Vendedor_key", "No. Cliente">>, Ingreso,
                                   "Customer_Revenue"),
                       Select(seller_accumulated(d), <<"Vendedor_key", "Accumulated_Revenue">>),
                       "Vendedor_key", ("Accumulated_Revenue" :> NaNf))
        shared ==
            [i \in DOMAIN merged |->
                ("% of_Seller" :> FDiv(merged[i]["Customer_Revenue"],
                                       replace_zero(merged[i]["Accumulated_Revenue"]))) @@
                merged[i]]
        rank == rank_first_desc(shared, <<"Vendedor_key">>, "Customer_Revenue")
    IN  [i \in DOMAIN shared |-> ("Customer_Rank" :> rank[i]) @@ shared[i]]

\* 4) HHI per seller: the sum of the squared shares, a missing share as 0
concentration_hhi(psc) ==
    LET ks == group_keys(psc, <<"Vendedor_key">>)
    IN  [g \in DOMAIN ks |->
            LET shares == Column(group_of(psc, <<"Vendedor_key">>, ks[g]), "% of_Seller")
            IN  ("HHI_Concentration" :>
                    FSum([i \in DOMAIN shares |->
                            FMul(fillna(shares[i], Q(0, 1)), fillna(shares[i], Q(0, 1)))])) @@
                KeyColumns(<<"Vendedor_key">>, ks[g])]

\* the revenue of the customers of rank 1 to 4
top5_revenue_below_rank(psc) ==
    groupby_sum(SelectSeq(psc, LAMBDA r : r["Customer_Rank"] < Top5),
                <<"Vendedor_key">>, "Customer_Revenue", "Top5_Customer_Revenue")

\* 5) the revenue of the customers of rank 1 to 5 per seller
top5_revenue(psc) ==
    groupby_sum(SelectSeq(psc, LAMBDA r : r["Customer_Rank"] <= Top5),
                <<"Vendedor_key">>, "Customer_Revenue", "Top5_Customer_Revenue")

\* 6) the number of customers per seller
unique_customers(psc) ==
    LET ks == group_keys(psc, <<"Vendedor_key">>)
    IN  [g \in DOMAIN ks |->
            ("Unique_Customers" :>
                Q(nunique(group_of(psc, <<"Vendedor_key">>, ks[g]), "No. Cliente"), 1)) @@
            KeyColumns(<<"Vendedor_key">>, ks[g])]

\* 7) the summary per seller: accumulated revenue, customers, Top-5 revenue
\* and HHI
portfolio_merged(acc, psc) ==
    merge_left(merge_left(merge_left(acc, unique_customers(psc), "Vendedor_key",
                                     ("Unique_Customers" :> NaNf)),
                          top5_revenue(psc), "Vendedor_key",
                          ("Top5_Customer_Revenue" :> NaNf)),
               concentration_hhi(psc), "Vendedor_key", ("HHI_Concentration" :> NaNf))

\* 7) and 8) the Top-5 revenue with a missing value as 0, the Top-5 share and
\* the risk flag
portfolio_flagged(m) ==
    [i \in DOMAIN m |->
        LET top5 == fillna(m[i]["Top5_Customer_Revenue"], Q(0, 1))
            pct == FMul(FDiv(top5, replace_zero(m[i]["Accumulated_Revenue"])), Q(100, 1))
        IN  ("Top5_Customer_Revenue" :> top5) @@
            ("% Top5_Revenue" :> pct) @@
            ("Risk (Concentration)" :>
                IF FGe(pct, Q(RiskThreshold, 1)) THEN "HIGH" ELSE "NORMAL") @@
            m[i]]

\* the seller portfolio, sorted by the Top-5 share, descending
seller_portfolio(d) ==
    Only({ sort_values_desc(flagged, "% Top5_Revenue") :
           flagged \in { portfolio_flagged(m) :
               m \in { portfolio_merged(acc, psc) :
                   acc \in {seller_accumulated(d)},
                   psc \in {portfolio_seller_customer(d)} } } })

\* 9) per seller and customer: revenue, purchases, first and last purchase,
\* city, region and the days from the last purchase to the latest date
customer_details(d) ==
    LET keys == <<"Vendedor_key", "No. Cliente">>
        max_date == MaxDate(Range(Column(d, "Fecha Operacion")))
        ks == group_keys(d, keys)
    IN  [g \in DOMAIN ks |->
            LET rows == group_of(d, keys, ks[g])
                last == MaxDate(Range(Column(rows, "Fecha Operacion")))
            IN  ("Total_Revenue" :> FSum(Column(rows, Ingreso))) @@
                ("Purchases" :> Cardinality({i \in DOMAIN rows : rows[i]["Guia"] # NaN})) @@
                ("Last_Purchase" :> last) @@
                ("First_Purchase" :> MinDate(Range(Column(rows, "Fecha Operacion")))) @@
                ("City" :> first_text(Column(rows, "CIUDAD"))) @@
                ("Region" :> first_text(Column(rows, "REGION"))) @@
                ("Days_Since_Last_Purchase" :> ToOrdinal(max_date) - ToOrdinal(last)) @@
                KeyColumns(keys, ks[g])]

\* the percentile taken over the customers of all the sellers
High_Value_global(details, i) ==
    FGe(details[i]["Total_Revenue"], quantile80(Column(details, "Total_Revenue")))

\* High_Value: the customer's revenue reaches the 80th percentile of the
\* revenues of the seller's customers
High_Value(details, i) ==
    FGe(details[i]["Total_Revenue"],
        quantile80(Column(group_of(details, <<"Vendedor_key">>,
                                   KeyOf(details[i], <<"Vendedor_key">>)),
                          "Total_Revenue")))

\* 9) the high-value customers without a purchase for DormantDays days
customers_to_reactivate(d) ==
    Only({ sort_values_desc2(
               Filter(details,
                      [i \in DOMAIN details |->
                          High_Value(details, i) /\
                          details[i]["Days_Since_Last_Purchase"] >= DormantDays]),
               "Days_Since_Last_Purchase", "Total_Revenue") :
           details \in {customer_details(d)} })

exercise_3_free_analysis(d) ==
    << Table("E3_Seller_Portfolio", seller_portfolio(d)),
       Table("E3_Reactivate_Customers", customers_to_reactivate(d)) >>

(***************************************************************************)
(* build_all_tables: the merged base, then the tables of every KPI.        *)
(***************************************************************************)
\* the columns are kept
keep_periods(rows) == rows

\* df.drop(columns=["Month_Period", "Quarter_Period"], errors="ignore")
drop_periods(rows) ==
    [i \in DOMAIN rows |-> Restrict(rows[i], (DOMAIN rows[i]) \ PeriodCols)]

RECURSIVE dict_update(_, _)
\* dict.update: a table whose name is a key of the registry takes the place of
\* the entry of that name, any other is added at the end
dict_update(tbls, new) ==
    IF new = << >> THEN tbls
    ELSE dict_update(
             IF \E i \in DOMAIN tbls : tbls[i].name = Head(new).name
             THEN [i \in DOMAIN tbls |->
                      IF tbls[i].name = Head(new).name THEN Head(new) ELSE tbls[i]]
             ELSE Append(tbls, Head(new)),
             Tail(new))

\* the result of build_all_tables: the error raised, or the table registry
build_all_tables(d) ==
    Only({ IF projection.err # NoError THEN [err |-> projection.err, tables |-> << >>]
           ELSE [err |-> NoError,
                 tables |->
                     dict_update(
                         dict_update(
                             dict_update(
                                 dict_update(<<Table("Merged_Base", drop_periods(d))>>,
                                             kpi_monthly_revenue(d)),
                                 kpi_quarterly_growth(d)),
                             projection.tables),
                         exercise_3_free_analysis(d))] :
           projection \in {kpi_projection(d)} })

(***************************************************************************)
(* export_excel: one sheet per registry table, named by safe_sheet_name.  *)
(* Table names are strings; Len, SubSeq and \o act on them.                *)
(***************************************************************************)
RECURSIVE lstrip(_)
lstrip(s) ==
    IF Len(s) > 0 /\ IsSpace(SubSeq(s, 1, 1)) THEN lstrip(SubSeq(s, 2, Len(s))) ELSE s

RECURSIVE rstrip(_)
rstrip(s) ==
    IF Len(s) > 0 /\ IsSpace(SubSeq(s, Len(s), Len(s)))
    THEN rstrip(SubSeq(s, 1, Len(s) - 1)) ELSE s

\* str.strip()
strip(s) == rstrip(lstrip(s))

RECURSIVE replace_slash(_)
\* str.replace("/", "_")
replace_slash(s) ==
    IF Len(s) = 0 THEN ""
    ELSE (IF SubSeq(s, 1, 1) = "/" THEN "_" ELSE SubSeq(s, 1, 1))
            \o replace_slash(SubSeq(s, 2, Len(s)))

\* s[:n]
Prefix(s, n) == IF Len(s) > n THEN SubSeq(s, 1, IF n < 0 THEN 0 ELSE n) ELSE s

\* base[: 31 - len(suffix)] + suffix for suffix "_i"
Candidate(base, i) ==
    Prefix(base, SheetNameLimit - Len("_" \o ToString(i))) \o "_" \o ToString(i)

SheetNameError ==
    Raise("ValueError", "No fue posible generar un nombre de hoja unico para Excel", "",
          << >>, << >>)

RECURSIVE first_free(_, _, _)
\* the loop over the suffixes _i, _i+1, ... up to LastSuffix
first_free(base, used, i) ==
    IF i > LastSuffix THEN [err |-> SheetNameError, sheet |-> ""]
    ELSE IF Candidate(base, i) \notin used THEN [err |-> NoError, sheet |-> Candidate(base, i)]
    ELSE first_free(base, used, i + 1)

\* a name over a limit of 20 characters is refused instead of cut
safe_sheet_name_strict(name, used) ==
    IF Len(strip(name)) > 20 THEN [err |-> SheetNameError, sheet |-> ""]
    ELSE [err |-> NoError, sheet |-> replace_slash(strip(name))]

\* the name cut to the limit, whether it is used or not
safe_sheet_name_cut(name, used) ==
    [err |-> NoError, sheet |-> Prefix(replace_slash(strip(name)), SheetNameLimit)]

\* safe_sheet_name(name, used): the sheet name, or the error raised
safe_sheet_name(name, used) ==
    Only({ IF base \notin used THEN [err |-> NoError, sheet |-> base]
           ELSE first_free(base, used, 1) :
           base \in {Prefix(replace_slash(strip(name)), SheetNameLimit)} })

RECURSIVE export_from(_, _, _, _)
\* the loop of export_excel from table i on: `file` holds the sheets written
\* so far.  The writer is a context manager, which saves the workbook when
\* the block is left, also when it is left by an exception.
export_from(tbls, i, used, file) ==
    IF i > Len(tbls) THEN [err |-> NoError, file |-> file]
    ELSE Only({ IF r.err # NoError THEN [err |-> r.err, file |-> file]
                ELSE export_from(tbls, i + 1, used \cup {r.sheet},
                                 Append(file, [sheet |-> r.sheet, rows |-> tbls[i].rows])) :
                r \in {safe_sheet_name(tbls[i].name, used)} })

\* export_excel(tables, output_path): the error raised, and the sheets of the
\* output file in the order written
export_excel(tbls) == export_from(tbls, 1, {}, << >>)

(***************************************************************************)
(* Input workbooks.  Seller names are short texts over a, b, c; one seller *)
(* "a b" of two tokens, one "a b c" of three, one "c" of a single token.   *)
(* Regions are "N" and "O", cities "A", "B", "C".                          *)
(***************************************************************************)
TxRow(date, seller, revenue, customer) ==
    ("Fecha Operacion" :> date) @@ ("Vendedor" :> seller) @@
    ("Ingreso Operacion" :> revenue) @@ ("No. Cliente" :> customer) @@
    ("Guia" :> <<"1">>)

DirRow(name, city, region) ==
    ("NOMBRE" :> name) @@ ("CIUDAD" :> city) @@ ("REGION" :> region)

PresRow(name, budget) == ("Vendedor" :> name) @@ ("Presupuesto" :> budget)

\* Transactions for the KPI tables: seller "a b" over three quarters with a
\* gap, a second month in the first quarter, a seller absent from the first
\* directory, an invalid date, a missing customer.
TxRows ==
    { TxRow(Date(2024, 1, 15), <<"a", " ", " ", "B">>, Num(100), <<"1">>),
      TxRow(Date(2024, 5, 10), <<"A", " ", "b">>, Num(150), <<"2">>),
      TxRow(Date(2024, 10, 5), <<" ", "a", "\t", "b">>, Num(90), <<"1">>),
      TxRow(Date(2024, 2, 20), <<"a", " ", "b">>, Txt(<<"n", "a">>), <<"2">>),
      TxRow(Date(2024, 5, 11), <<"c">>, Txt(<<"2", "0">>), <<"1">>),
      TxRow(Date(2024, 7, 1), <<"a", " ", "b", " ", "c">>, Num(150), NaN),
      TxRow(Date(2024, 13, 1), <<"a", " ", "b">>, Num(100), <<"1">>) }

\* Transactions for the joins: one per seller, and one with no seller name.
JoinTxRows ==
    { TxRow(Date(2024, 1, 15), <<"a", " ", " ", "B">>, Num(100), <<"1">>),
      TxRow(Date(2024, 1, 15), <<"a", " ", "b", " ", "C">>, Missing, <<"1">>),
      TxRow(Date(2024, 1, 15), <<"c">>, Num(90), <<"2">>) }

\* the transaction sheets for the joins: no row, one row, two rows, the last
\* one with two spellings of seller "a b"
JoinTransactions ==
    { << >> } \cup { <<r>> : r \in JoinTxRows } \cup
    { <<r, r2>> : r \in JoinTxRows,
                  r2 \in {TxRow(Date(2024, 1, 15), <<"c">>, Num(90), <<"2">>)} } \cup
    { << TxRow(Date(2024, 1, 15), <<"a", " ", " ", "B">>, Num(100), <<"1">>),
         TxRow(Date(2024, 5, 10), <<"A", " ", "b">>, Num(150), <<"2">>) >> }

\* Directory rows: two spellings of seller "a b" with different cities, and
\* seller "a b c".
DirRows ==
    { DirRow(<<"1", " ", "A", " ", "b">>, <<"A">>, <<"O">>),
      DirRow(<<"2", "2", " ", " ", "a", " ", "B">>, <<"B">>, <<"N">>),
      DirRow(<<"0", "2", " ", "a", " ", "b", " ", "c">>, <<"C">>, <<"N">>) }

\* Budget rows, last name first: two spellings of seller "a b" with different
\* amounts, and seller "a b c" with an amount that is no number.
PresRows ==
    { PresRow(<<"B", " ", "a">>, Num(1000)),
      PresRow(<<"b", " ", " ", "A">>, Txt(<<"5", "0", "0">>)),
      PresRow(<<"c", " ", "a", " ", "b">>, Txt(<<"n", "a">>)) }

\* a directory and a budget sheet with every row above, the second spelling
\* of seller "a b" first
FullDirectory ==
    << DirRow(<<"2", "2", " ", " ", "a", " ", "B">>, <<"B">>, <<"N">>),
       DirRow(<<"1", " ", "A", " ", "b">>, <<"A">>, <<"O">>),
       DirRow(<<"0", "2", " ", "a", " ", "b", " ", "c">>, <<"C">>, <<"N">>) >>

FullBudget ==
    << PresRow(<<"b", " ", " ", "A">>, Txt(<<"5", "0", "0">>)),
       PresRow(<<"B", " ", "a">>, Num(1000)),
       PresRow(<<"c", " ", "a", " ", "b">>, Txt(<<"n", "a">>)) >>

SeqsUpTo(S, n) == UNION {[1..k -> S] : k \in 0..n}

Workbook(b, c, p) ==
    [exists |-> TRUE, names |-> RequiredSheets,
     sheets |-> ("BD" :> b) @@ ("Ciudad-Region" :> c) @@ ("Presupuesto" :> p)]

\* a directory and a budget sheet to put next to the KPI transactions
KpiDirectories ==
    { <<DirRow(<<"1", " ", "A", " ", "b">>, <<"A">>, <<"O">>),
        DirRow(<<"0", "2", " ", "a", " ", "b", " ", "c">>, <<"C">>, <<"N">>)>>,
      <<DirRow(<<"1", " ", "A", " ", "b">>, <<"B">>, <<"N">>),
        DirRow(<<"2", " ", "c">>, <<"A">>, <<"N">>)>> }

KpiBudgets ==
    { <<PresRow(<<"B", " ", "a">>, Num(1000)),
        PresRow(<<"c", " ", "a", " ", "b">>, Num(0))>> }

\* the workbooks whose three sheets have every required column
KpiBooks ==
    { Workbook(Sheet(BDRequired, b), Sheet(CdrgRequired, c), Sheet(PresRequired, p)) :
        b \in SeqsUpTo(TxRows, MaxTx), c \in KpiDirectories, p \in KpiBudgets }

\* every short directory next to a fixed budget sheet, and every short
\* budget sheet next to a fixed directory
JoinReferences ==
    (SeqsUpTo(DirRows, MaxRef) \X {<< >>, FullBudget}) \cup
    ({<< >>, FullDirectory} \X SeqsUpTo(PresRows, MaxRef))

JoinBooks ==
    { Workbook(Sheet(BDRequired, b), Sheet(CdrgRequired, r[1]),
               Sheet(PresRequired, r[2])) :
        b \in JoinTransactions, r \in JoinReferences }

\* the workbooks with a portfolio at and over the Top5 cut-off: seller "a b"
\* sells once to each of Top5, Top5 + 1 or PortfolioSize customers, the last
\* customer first, for 10 or 20
PortfolioBooks ==
    { Workbook(Sheet(BDRequired,
                     [i \in 1..n |->
                         TxRow(Date(2024, 1, i), <<"a", " ", "b">>, Num(rev[i]),
                               StrNat(PortfolioSize + 1 - i))]),
               Sheet(CdrgRequired, <<DirRow(<<"1", " ", "A", " ", "b">>, <<"A">>, <<"O">>)>>),
               Sheet(PresRequired, << >>)) :
        rev \in [1..PortfolioSize -> {10, 20}], n \in {Top5, Top5 + 1, PortfolioSize} }

\* column lists with a required column absent, and the complete lists
BDColumnLists ==
    { BDRequired, <<"Fecha Operacion", "Vendedor", "Ingreso Operacion">>,
      <<"Vendedor", "Guia", "No. Cliente", "Ingreso Operacion">> }

CdrgColumnLists == { CdrgRequired, <<"NOMBRE", "CIUDAD">> }

PresColumnLists == { PresRequired, <<"Vendedor">>, << >> }

\* the workbooks that may lack columns, with a valid, an invalid or no date
ColumnBooks ==
    { Workbook(Sheet(bc, b), Sheet(cc, c), Sheet(pc_, p)) :
        bc \in BDColumnLists, cc \in CdrgColumnLists, pc_ \in PresColumnLists,
        b \in {<<TxRow(Date(2024, 1, 15), <<"a", " ", "b">>, Num(100), <<"1">>)>>,
               <<TxRow(Date(2024, 13, 1), <<"a", " ", "b">>, Num(100), <<"1">>)>>,
               <<TxRow(NaT, <<"c">>, Missing, <<"2">>)>>},
        c \in {<<DirRow(<<"1", " ", "A", " ", "b">>, <<"A">>, <<"O">>)>>},
        p \in {<<PresRow(<<"B", " ", "a">>, Num(1000))>>} }

\* no input file, and workbooks that lack a sheet
BrokenBooks ==
    { [exists |-> FALSE, names |-> << >>, sheets |-> << >>],
      [exists |-> TRUE, names |-> <<"BD">>, sheets |-> ("BD" :> EmptySheet)],
      [exists |-> TRUE, names |-> <<"Presupuesto", "Ciudad-Region">>,
       sheets |-> ("Ciudad-Region" :> EmptySheet) @@ ("Presupuesto" :> EmptySheet)] }

Workbooks == KpiBooks \cup JoinBooks \cup PortfolioBooks \cup ColumnBooks \cup BrokenBooks

NoProbe == [x |-> << >>, f |-> FALSE, step |-> "idle", key |-> << >>, again |-> << >>,
            plain |-> << >>, bkey |-> << >>]

Init ==
    /\ pc = "start"
    /\ xlsx \in Workbooks
    /\ bd = EmptySheet
    /\ cdrg = EmptySheet
    /\ pres = EmptySheet
    /\ df = << >>
    /\ tables = << >>
    /\ err = NoError
    /\ written = << >>
    /\ probe = NoProbe

(***************************************************************************)
(* The run: load, prepare_base, build_all_tables, export_excel.            *)
(***************************************************************************)
\* run_analysis steps 1 and 2: the file must exist and hold the three sheets.
\* pc is the last phase that completed; a raised error stays in err and
\* ends the run.
LoadSheets ==
    /\ pc = "start"
    /\ err = NoError
    /\ LET missing == SelectSeq(RequiredSheets, LAMBDA s : s \notin Range(xlsx.names))
       IN  IF ~xlsx.exists
           THEN /\ err' = Raise("FileNotFoundError", "Input file not found", "", << >>, << >>)
                /\ UNCHANGED <<pc, bd, cdrg, pres>>
           ELSE IF missing # << >>
           THEN /\ err' = Raise("ValueError", "Missing sheets in Excel", "", missing,
                                xlsx.names)
                /\ UNCHANGED <<pc, bd, cdrg, pres>>
           ELSE /\ bd' = xlsx.sheets["BD"]
                /\ cdrg' = xlsx.sheets["Ciudad-Region"]
                /\ pres' = xlsx.sheets["Presupuesto"]
                /\ pc' = "loaded"
                /\ err' = err
    /\ UNCHANGED <<xlsx, df, tables, written, probe>>

\* run_analysis step 3
PrepareBase ==
    /\ pc = "loaded"
    /\ err = NoError
    /\ \E r \in {prepare_base(bd, cdrg, pres)} :
           /\ err' = r.err
           /\ df' = r.df
           /\ pc' = IF r.err = NoError THEN "prepared" ELSE pc
    /\ UNCHANGED <<xlsx, bd, cdrg, pres, tables, written, probe>>

\* run_analysis step 4
BuildAllTables ==
    /\ pc = "prepared"
    /\ err = NoError
    /\ \E r \in {build_all_tables(df)} :
           /\ err' = r.err
           /\ tables' = r.tables
           /\ pc' = IF r.err = NoError THEN "built" ELSE pc
    /\ UNCHANGED <<xlsx, bd, cdrg, pres, df, written, probe>>

\* run_analysis step 5
ExportExcel ==
    /\ pc = "built"
    /\ err = NoError
    /\ \E r \in {export_excel(tables)} :
           /\ err' = r.err
           /\ written' = r.file
           /\ pc' = IF r.err = NoError THEN "exported" ELSE pc
    /\ UNCHANGED <<xlsx, bd, cdrg, pres, df, tables, probe>>

Next == LoadSheets \/ PrepareBase \/ BuildAllTables \/ ExportExcel

Spec == Init /\ [][Next]_vars

(***************************************************************************)
(* The key functions on their own: every text of at most MaxLen characters *)
(* over a letter of each case, a digit, a space and a tab, and the two     *)
(* missing values, is normalised, normalised again, and turned into a      *)
(* budget key.                                                             *)
(***************************************************************************)
NormAlphabet == {"a", "B", "1", " ", "\t"}

NormInputs == SeqsUpTo(NormAlphabet, MaxLen) \cup {NaN, None}

InitNorm ==
    /\ pc = "selftest"
    /\ xlsx = [exists |-> FALSE, names |-> << >>, sheets |-> << >>]
    /\ bd = EmptySheet
    /\ cdrg = EmptySheet
    /\ pres = EmptySheet
    /\ df = << >>
    /\ tables = << >>
    /\ err = NoError
    /\ written = << >>
    /\ \E x \in NormInputs, f \in BOOLEAN :
          probe = [NoProbe EXCEPT !.x = x, !.f = f, !.step = "input"]

\* key = normalize_vendor_name(x, remove_leading_digits=f)
ProbeNormalize ==
    /\ probe.step = "input"
    /\ probe' = [probe EXCEPT !.step = "keyed",
                              !.key = normalize_vendor_name(probe.x, probe.f)]
    /\ UNCHANGED <<pc, xlsx, bd, cdrg, pres, df, tables, err, written>>

\* the key is normalised once more, with the same flag and without it
ProbeAgain ==
    /\ probe.step = "keyed"
    /\ probe' = [probe EXCEPT !.step = "again",
                              !.again = normalize_vendor_name(probe.key, probe.f),
                              !.plain = normalize_vendor_name(probe.key, FALSE)]
    /\ UNCHANGED <<pc, xlsx, bd, cdrg, pres, df, tables, err, written>>

\* bkey = presupuesto_to_common_key(x)
ProbeBudgetKey ==
    /\ probe.step = "input"
    /\ probe' = [probe EXCEPT !.step = "budget",
                              !.bkey = presupuesto_to_common_key(probe.x)]
    /\ UNCHANGED <<pc, xlsx, bd, cdrg, pres, df, tables, err, written>>

NextNorm == ProbeNormalize \/ ProbeAgain \/ ProbeBudgetKey

SpecNorm == InitNorm /\ [][NextNorm]_vars

(***************************************************************************)
(* export_excel on its own: every registry of at most MaxNames tables with *)
(* distinct names, among them names longer than a sheet name may be, names *)
(* that are equal once cut, stripped or rid of "/", and names that look    *)
(* like a suffixed name.                                                   *)
(***************************************************************************)
Long31 == "ABCDEFGHIJKLMNOPQRSTUVWXYZ01234"

SheetNames ==
    { Long31, Long31 \o "5", Long31 \o "67",
      SubSeq(Long31, 1, 29) \o "_1", SubSeq(Long31, 1, 29) \o "_2",
      "A/B", "A_B", " A_B ", "A_B_1", "" }

\* the registries: a dict has no key twice
Registries ==
    { r \in SeqsUpTo(SheetNames, MaxNames) : \A i, j \in DOMAIN r : i # j => r[i] # r[j] }

InitSheets ==
    /\ pc = "built"
    /\ xlsx = [exists |-> FALSE, names |-> << >>, sheets |-> << >>]
    /\ bd = EmptySheet
    /\ cdrg = EmptySheet
    /\ pres = EmptySheet
    /\ df = << >>
    /\ \E r \in Registries : tables = [i \in DOMAIN r |-> Table(r[i], << >>)]
    /\ err = NoError
    /\ written = << >>
    /\ probe = NoProbe

NextSheets == ExportExcel

SpecSheets == InitSheets /\ [][NextSheets]_vars

(***************************************************************************)
(* C2: idempotence of normalize.                                           *)
(***************************************************************************)
StartsWithDigit(s) == s # << >> /\ IsDigit(Head(s))

\* C2 as stated: for every text x and either flag f,
\* normalize(normalize(x, f), f) = normalize(x, f).
C2_IdempotentForEveryFlag == probe.step = "again" => probe.again = probe.key

\* C2 amended: a key is a fixed point of normalize without the flag, and of
\* normalize with the flag exactly when the key does not start with a digit
\* (with the flag, a second leading digit group is stripped too).
C2_IdempotentUnlessDigitsLead ==
    probe.step = "again" =>
        /\ probe.plain = probe.key
        /\ (probe.again = probe.key) <=> ~(probe.f /\ StartsWithDigit(probe.key))

\* a key that starts with a digit was normalised again with the flag set
C2_Witness ==
    /\ probe.step = "again"
    /\ probe.f
    /\ StartsWithDigit(probe.key)
    /\ Len(Split(probe.x)) >= 3

(***************************************************************************)
(* C3: the budget key.                                                     *)
(***************************************************************************)
\* how often token t occurs in the token list ts
Count(ts, t) == Cardinality({i \in DOMAIN ts : ts[i] = t})

\* C3: the tokens of budgetKey(x) are those of normalize(x) shifted one place
\* to the left with the first token last (the same tokens when there are
\* fewer than two), joined by single spaces; every token occurs as often in
\* the one as in the other.
C3_BudgetKeyRotatesFirstTokenToEnd ==
    probe.step = "budget" =>
        LET k == normalize_vendor_name(probe.x, FALSE)
            ts == Split(k)
            bs == Split(probe.bkey)
            n == Len(ts)
        IN  /\ Len(bs) = n
            /\ probe.bkey = Join(bs)
            /\ n >= 2 => /\ bs[n] = ts[1]
                         /\ \A i \in 1..(n - 1) : bs[i] = ts[i + 1]
            /\ n < 2 => probe.bkey = k
            /\ \A t \in Range(ts) \cup Range(bs) : Count(ts, t) = Count(bs, t)

\* a name of three distinct tokens went through budgetKey
C3_Witness ==
    /\ probe.step = "budget"
    /\ Len(Split(probe.x)) = 3
    /\ Cardinality(Range(Split(probe.bkey))) = 3

(***************************************************************************)
(* Claims about prepare_base.                                              *)
(***************************************************************************)
\* the phases after a successful prepare_base
Prepared == pc \in {"prepared", "built", "exported"}

Tokens(raw) == Split(StrOrEmpty(raw))

AllDigits(t) == t # << >> /\ \A i \in DOMAIN t : IsDigit(t[i])

\* the same token up to letter case
SameToken(s, t) == Upper(s) = Upper(t)

\* The three sheets spell one seller of n >= 2 tokens: the transaction as
\* T1 .. Tn, the directory as <digits> T1 .. Tn, the budget as Tn T1 .. Tn-1.
SameSeller(tx, dir, bud) ==
    LET tt == Tokens(tx)
        dt == Tokens(dir)
        bt == Tokens(bud)
        n == Len(tt)
    IN  /\ n >= 2
        /\ Len(dt) = n + 1
        /\ AllDigits(dt[1])
        /\ \A i \in 1..n : SameToken(dt[i + 1], tt[i])
        /\ Len(bt) = n
        /\ SameToken(bt[1], tt[n])
        /\ \A i \in 1..(n - 1) : SameToken(bt[i + 1], tt[i])

DirKey(j) == cdrg_keyed(cdrg.rows)[j]["Vendedor_key"]

PresKey(k) == pres_keyed(pres.rows)[k]["Vendedor_key"]

\* row j is the first directory row with its key
FirstDir(j) == \A j2 \in 1..(j - 1) : DirKey(j2) # DirKey(j)

\* row k is the first budget row with its key
FirstPres(k) == \A k2 \in 1..(k - 1) : PresKey(k2) # PresKey(k)

\* C1: when a transaction row, a directory row and a budget row spell the
\* same seller of two or more tokens (T1..Tn, <digits> T1..Tn, Tn T1..Tn-1, in
\* any case and spacing), the three seller keys are equal, and every merged
\* record with that key carries the city and region of that directory row and
\* the amount of that budget row (the row being the seller's entry, that is
\* the first of its sheet with that key).
C1_KeysAgreeAcrossSources ==
    Prepared =>
        \A i \in DOMAIN bd.rows, j \in DOMAIN cdrg.rows, k \in DOMAIN pres.rows :
            SameSeller(bd.rows[i]["Vendedor"], cdrg.rows[j]["NOMBRE"],
                       pres.rows[k]["Vendedor"]) =>
                /\ DirKey(j) = PresKey(k)
                /\ \A m \in DOMAIN df :
                      df[m]["Vendedor"] = bd.rows[i]["Vendedor"] =>
                          /\ df[m]["Vendedor_key"] = DirKey(j)
                          /\ FirstDir(j) =>
                                /\ df[m]["CIUDAD"] = cdrg.rows[j]["CIUDAD"]
                                /\ df[m]["REGION"] = cdrg.rows[j]["REGION"]
                          /\ (FirstPres(k) /\ pres.rows[k]["Presupuesto"].t = "num") =>
                                df[m]["Presupuesto"] = pres.rows[k]["Presupuesto"].v

\* a seller spelled three ways was merged with its directory and budget rows
C1_Witness ==
    /\ pc = "prepared"
    /\ \E i \in DOMAIN bd.rows, j \in DOMAIN cdrg.rows, k \in DOMAIN pres.rows :
          /\ SameSeller(bd.rows[i]["Vendedor"], cdrg.rows[j]["NOMBRE"],
                        pres.rows[k]["Vendedor"])
          /\ FirstDir(j)
          /\ FirstPres(k)
          /\ pres.rows[k]["Presupuesto"].t = "num"
          /\ Upper(bd.rows[i]["Vendedor"]) # DirKey(j)
    /\ \E i \in DOMAIN bd.rows, j \in DOMAIN cdrg.rows, k \in DOMAIN pres.rows :
          /\ SameSeller(bd.rows[i]["Vendedor"], cdrg.rows[j]["NOMBRE"],
                        pres.rows[k]["Vendedor"])
          /\ Len(Tokens(bd.rows[i]["Vendedor"])) = 3

\* C4: the merged base has one record per transaction row, in the order of
\* the transactions: record i is transaction i with its seller, customer,
\* shipment, date and revenue.
C4_OneRecordPerTransaction ==
    Prepared =>
        /\ Len(df) = Len(bd.rows)
        /\ \A i \in DOMAIN df :
              /\ df[i]["Vendedor"] = bd.rows[i]["Vendedor"]
              /\ df[i]["No. Cliente"] = bd.rows[i]["No. Cliente"]
              /\ df[i]["Guia"] = bd.rows[i]["Guia"]
              /\ df[i]["Fecha Operacion"] = bd.rows[i]["Fecha Operacion"]

\* two different transactions were merged, one of a seller in no directory
\* row and one of a seller with two directory rows and two budget rows
C4_Witness ==
    /\ pc = "prepared"
    /\ Len(bd.rows) = 2
    /\ bd.rows[1] # bd.rows[2]
    /\ \E i \in DOMAIN df : \A j \in DOMAIN cdrg.rows : DirKey(j) # df[i]["Vendedor_key"]
    /\ \E i \in DOMAIN df :
          /\ Cardinality({j \in DOMAIN cdrg.rows : DirKey(j) = df[i]["Vendedor_key"]}) = 2
          /\ Cardinality({k \in DOMAIN pres.rows : PresKey(k) = df[i]["Vendedor_key"]}) = 2

\* C5: a merged record carries the city and region of the first directory
\* row with its key and the (numeric) budget of the first budget row with its
\* key, whatever later rows with that key say.
C5_FirstOccurrenceWins ==
    Prepared =>
        \A m \in DOMAIN df :
            /\ \A j \in DOMAIN cdrg.rows :
                  (DirKey(j) = df[m]["Vendedor_key"] /\ FirstDir(j)) =>
                      /\ df[m]["CIUDAD"] = cdrg.rows[j]["CIUDAD"]
                      /\ df[m]["REGION"] = cdrg.rows[j]["REGION"]
            /\ \A k \in DOMAIN pres.rows :
                  (PresKey(k) = df[m]["Vendedor_key"] /\ FirstPres(k)) =>
                      df[m]["Presupuesto"] = to_numeric(pres.rows[k]["Presupuesto"])

\* a record whose key has two directory rows with different cities and two
\* budget rows with different amounts
C5_Witness ==
    /\ pc = "prepared"
    /\ \E m \in DOMAIN df :
          /\ \E j1, j2 \in DOMAIN cdrg.rows :
                /\ j1 < j2
                /\ DirKey(j1) = df[m]["Vendedor_key"]
                /\ DirKey(j2) = df[m]["Vendedor_key"]
                /\ cdrg.rows[j1]["CIUDAD"] # cdrg.rows[j2]["CIUDAD"]
          /\ \E k1, k2 \in DOMAIN pres.rows :
                /\ k1 < k2
                /\ PresKey(k1) = df[m]["Vendedor_key"]
                /\ PresKey(k2) = df[m]["Vendedor_key"]
                /\ to_numeric(pres.rows[k1]["Presupuesto"]) #
                       to_numeric(pres.rows[k2]["Presupuesto"])

\* the cell holds a number: a numeric cell or a text that spells one
IsNumeric(cell) == cell.t = "num" \/ (cell.t = "str" /\ AllDigits(cell.v))

\* C6: revenue is always a number, 0 when the source cell is no number;
\* budget is a number or null, null when no budget row has the record's key
\* or the first one's amount is no number; city and region are null when no
\* directory row has the record's key.
C6_NullVersusZero ==
    Prepared =>
        \A m \in DOMAIN df :
            /\ IsNum(df[m]["Ingreso Operacion"])
            /\ ~IsNumeric(bd.rows[m]["Ingreso Operacion"]) =>
                  df[m]["Ingreso Operacion"] = Q(0, 1)
            /\ bd.rows[m]["Ingreso Operacion"].t = "num" =>
                  df[m]["Ingreso Operacion"] = bd.rows[m]["Ingreso Operacion"].v
            /\ df[m]["Presupuesto"].k \in {"num", "nan"}
            /\ (\A k \in DOMAIN pres.rows : PresKey(k) # df[m]["Vendedor_key"]) =>
                  isna(df[m]["Presupuesto"])
            /\ \A k \in DOMAIN pres.rows :
                  (PresKey(k) = df[m]["Vendedor_key"] /\ FirstPres(k)
                      /\ ~IsNumeric(pres.rows[k]["Presupuesto"])) =>
                          isna(df[m]["Presupuesto"])
            /\ (\A j \in DOMAIN cdrg.rows : DirKey(j) # df[m]["Vendedor_key"]) =>
                  /\ df[m]["CIUDAD"] = NaN
                  /\ df[m]["REGION"] = NaN

\* a record with a revenue that is no number and a budget amount that is no
\* number, next to a record of a seller with no directory and no budget row
C6_Witness ==
    /\ pc = "prepared"
    /\ \E m \in DOMAIN df :
          /\ ~IsNumeric(bd.rows[m]["Ingreso Operacion"])
          /\ \E k \in DOMAIN pres.rows :
                /\ PresKey(k) = df[m]["Vendedor_key"]
                /\ FirstPres(k)
                /\ ~IsNumeric(pres.rows[k]["Presupuesto"])
    /\ \E m \in DOMAIN df :
          /\ \A k \in DOMAIN pres.rows : PresKey(k) # df[m]["Vendedor_key"]
          /\ \A j \in DOMAIN cdrg.rows : DirKey(j) # df[m]["Vendedor_key"]
    /\ cdrg.rows # << >>
    /\ pres.rows # << >>

\* the required columns that the sheet does not have, in the required order
MissingColumns(sheet, required) ==
    SelectSeq(required, LAMBDA c : \A i \in DOMAIN sheet.cols : sheet.cols[i] # c)

\* the loaded sheets with their labels and required columns
LoadedSheets ==
    { [label |-> "BD", sheet |-> bd, required |-> BDRequired],
      [label |-> "Ciudad-Region", sheet |-> cdrg, required |-> CdrgRequired],
      [label |-> "Presupuesto", sheet |-> pres, required |-> PresRequired] }

SomeColumnMissing ==
    \E s \in LoadedSheets : MissingColumns(s.sheet, s.required) # << >>

\* C7: once the sheets are loaded and one of them lacks a required column,
\* the run never gets past prepare_base: no merged base, no table, no output;
\* the error raised names a sheet that lacks columns and lists its missing
\* and its available columns, also when a date is invalid as well.
C7_SchemaErrorFirst ==
    (pc # "start" /\ pc # "selftest" /\ SomeColumnMissing) =>
        /\ pc = "loaded"
        /\ df = << >>
        /\ tables = << >>
        /\ written = << >>
        /\ err # NoError =>
              /\ err.type = "ValueError"
              /\ err.what = "Faltan columnas"
              /\ \E s \in LoadedSheets :
                    /\ err.table = s.label
                    /\ err.missing # << >>
                    /\ err.missing = MissingColumns(s.sheet, s.required)
                    /\ err.available = s.sheet.cols

\* prepare_base raised a schema error on a workbook whose BD sheet has all
\* its columns and an invalid date, and whose other sheets lack columns
C7_Witness ==
    /\ pc = "loaded"
    /\ err.what = "Faltan columnas"
    /\ err.table = "Ciudad-Region"
    /\ MissingColumns(pres, PresRequired) # << >>
    /\ \E i \in DOMAIN bd.rows : to_datetime(bd.rows[i]["Fecha Operacion"]) = NaT

\* the cell is a day of the calendar
IsCalendarDate(c) ==
    /\ c.y >= 1
    /\ c.m \in 1..12
    /\ c.d >= 1
    /\ c.d <= (CASE c.m \in {1, 3, 5, 7, 8, 10, 12} -> 31
                 [] c.m \in {4, 6, 9, 11} -> 30
                 [] OTHER -> IF IsLeap(c.y) THEN 29 ELSE 28)

SomeDateInvalid ==
    \E i \in DOMAIN bd.rows : ~IsCalendarDate(bd.rows[i]["Fecha Operacion"])

\* C8: with all columns present and one operation date that is no date, the
\* run never gets past prepare_base, the error is the invalid-dates error
\* and there is no merged record; and a merged base, when there is one, has
\* a record for every transaction, with the transaction's date, which is a
\* calendar date, and the month and quarter of that date.
C8_DateFailureIsTotal ==
    /\ (pc # "start" /\ pc # "selftest" /\ ~SomeColumnMissing /\ SomeDateInvalid) =>
          /\ pc = "loaded"
          /\ df = << >>
          /\ err # NoError => err = InvalidDates
    /\ Prepared =>
          /\ Len(df) = Len(bd.rows)
          /\ \A i \in DOMAIN df :
                LET dt == df[i]["Fecha Operacion"]
                    mp == df[i]["Month_Period"]
                    qp == df[i]["Quarter_Period"]
                IN  /\ dt = bd.rows[i]["Fecha Operacion"]
                    /\ IsCalendarDate(dt)
                    /\ 1970 + (mp \div 12) = dt.y
                    /\ (mp % 12) + 1 = dt.m
                    /\ 1970 + (qp \div 4) = dt.y
                    /\ 3 * (qp % 4) < dt.m
                    /\ dt.m <= 3 * (qp % 4) + 3

\* prepare_base raised the invalid-dates error on three transactions of
\* which only the last has an invalid date
C8_Witness ==
    /\ pc = "loaded"
    /\ err = InvalidDates
    /\ Len(bd.rows) = 3
    /\ IsCalendarDate(bd.rows[1]["Fecha Operacion"])
    /\ IsCalendarDate(bd.rows[2]["Fecha Operacion"])
    /\ ~IsCalendarDate(bd.rows[3]["Fecha Operacion"])

(***************************************************************************)
(* Claims about the KPI tables.                                            *)
(***************************************************************************)
\* the rows of the registry table with the given name
TableNamed(name) == tables[CHOOSE i \in DOMAIN tables : tables[i].name = name].rows

ColumnSum(name, col) == FSum(Column(TableNamed(name), col))

\* the total revenue of the merged base
TotalRevenue == FSum(Column(df, Ingreso))

\* the grouped revenue tables with their revenue column
RevenueTables ==
    { <<"KPI1_Monthly_Total", "Monthly_Revenue">>,
      <<"KPI1_Monthly_Region", "Monthly_Revenue">>,
      <<"KPI1_Monthly_City", "Monthly_Revenue">>,
      <<"KPI1_Monthly_Seller", "Monthly_Revenue">>,
      <<"KPI2_Quarterly_Total", "Quarterly_Revenue">>,
      <<"KPI2_Quarterly_Region", "Quarterly_Revenue">>,
      <<"KPI2_Quarterly_Seller", "Quarterly_Revenue">>,
      <<"KPI4_Compliance_Seller", "Accumulated_Revenue">>,
      <<"E3_Seller_Portfolio", "Accumulated_Revenue">> }

\* C9: the revenue column of every grouped revenue table (monthly total, by
\* region, by city, by seller; quarterly total, by region, by seller; seller
\* compliance; seller portfolio) sums to the total revenue of the merged
\* base, also when a record has no region and no city.
C9_EveryRecordCounted ==
    pc = "built" => \A t \in RevenueTables : ColumnSum(t[1], t[2]) = TotalRevenue

\* the growth the claim gives for a revenue after a previous revenue
ClaimedGrowth(current, previous) ==
    FMul(FDiv(FSub(current, previous), previous), Q(100, 1))

\* the quarterly tables with the columns that make a group
QuarterlyTables ==
    { <<"KPI2_Quarterly_Total", << >> >>,
      <<"KPI2_Quarterly_Region", <<"REGION">> >>,
      <<"KPI2_Quarterly_Seller", <<"Vendedor_key">> >> }

\* C10: in each quarterly table, an entry with no earlier quarter in its
\* group (all records; its region; its seller) has null growth, and any
\* other entry has growth (revenue - previous) / previous * 100, previous
\* being the revenue of the latest earlier quarter of the same group.
C10_GrowthWithinGroup ==
    pc = "built" =>
        \A t \in QuarterlyTables :
            LET rows == TableNamed(t[1])
            IN  \A i \in DOMAIN rows :
                    LET earlier == {j \in DOMAIN rows :
                                      /\ KeyOf(rows[j], t[2]) = KeyOf(rows[i], t[2])
                                      /\ StrLt(rows[j]["Quarter"], rows[i]["Quarter"])}
                    IN  IF earlier = {} THEN isna(rows[i]["% Quarterly_Growth"])
                        ELSE \E j \in earlier :
                                /\ \A j2 \in earlier \ {j} :
                                      StrLt(rows[j2]["Quarter"], rows[j]["Quarter"])
                                /\ rows[i]["% Quarterly_Growth"] =
                                      ClaimedGrowth(rows[i]["Quarterly_Revenue"],
                                                    rows[j]["Quarterly_Revenue"])

\* the quarterly totals 100, 150, 90 with the growths null, 50, -40
C10_Witness ==
    /\ pc = "built"
    /\ Column(TableNamed("KPI2_Quarterly_Total"), "Quarterly_Revenue") =
           <<Q(100, 1), Q(150, 1), Q(90, 1)>>
    /\ Column(TableNamed("KPI2_Quarterly_Total"), "% Quarterly_Growth") =
           <<NaNf, Q(50, 1), Q(-40, 1)>>
    /\ Column(TableNamed("KPI2_Quarterly_Seller"), "% Quarterly_Growth") =
           <<NaNf, Q(50, 1), Q(-40, 1)>>

(***************************************************************************)
(* C11: divisions with a denominator that is 0 or null.                    *)
(***************************************************************************)
Built == pc \in {"built", "exported"}

IsZeroOrNull(x) == isna(x) \/ x = Q(0, 1)

\* the rows of the same group as row i with an earlier quarter
EarlierQuarters(rows, keys, i) ==
    {j \in DOMAIN rows : /\ KeyOf(rows[j], keys) = KeyOf(rows[i], keys)
                         /\ StrLt(rows[j]["Quarter"], rows[i]["Quarter"])}

\* the row just before row i in its group: the latest of the earlier quarters
PreviousEntry(rows, keys, i) ==
    CHOOSE j \in EarlierQuarters(rows, keys, i) :
        \A j2 \in EarlierQuarters(rows, keys, i) :
            ~StrLt(rows[j]["Quarter"], rows[j2]["Quarter"])

\* C11: every division yields null when its denominator is 0 or null:
\* quarterly growth after a revenue of 0, the two compliance percentages with
\* a budget of 0 or null, the customer share and the Top-5 percentage with an
\* accumulated revenue of 0, the monthly average with no month; never an
\* infinity.
C11_NullOnZeroDenominator ==
    Built =>
        /\ \A t \in QuarterlyTables :
              \A i \in DOMAIN TableNamed(t[1]) :
                 (/\ EarlierQuarters(TableNamed(t[1]), t[2], i) # {}
                  /\ IsZeroOrNull(TableNamed(t[1])[PreviousEntry(TableNamed(t[1]), t[2], i)]
                                      ["Quarterly_Revenue"]))
                 => isna(TableNamed(t[1])[i]["% Quarterly_Growth"])
        /\ \A i \in DOMAIN TableNamed("KPI4_Compliance_Seller") :
              LET r == TableNamed("KPI4_Compliance_Seller")[i]
              IN  /\ IsZeroOrNull(r["Budget"]) =>
                        isna(r["% Budget_Compliance"]) /\ isna(r["% Projected_Compliance"])
                  /\ r["Months_With_Data"] = 0 => isna(r["Avg_Monthly_Revenue"])
        /\ \A i \in DOMAIN TableNamed("E3_Seller_Portfolio") :
              LET r == TableNamed("E3_Seller_Portfolio")[i]
              IN  IsZeroOrNull(r["Accumulated_Revenue"]) => isna(r["% Top5_Revenue"])
        /\ \A i \in DOMAIN portfolio_seller_customer(df) :
              LET r == portfolio_seller_customer(df)[i]
              IN  IsZeroOrNull(r["Accumulated_Revenue"]) => isna(r["% of_Seller"])

(***************************************************************************)
(* C12: the projection on a merged base with no record.                    *)
(***************************************************************************)
\* C12: build_all_tables on a merged base with no record (no month) fails
\* with the projection's error, leaves no registry and export_excel never
\* runs; on a merged base with a record it succeeds.
C12_ProjectionNeedsAMonth ==
    /\ [][(pc = "prepared" /\ err = NoError) =>
             IF df = << >>
             THEN err' = NoMonths /\ pc' = "prepared" /\ tables' = << >> /\ written' = << >>
             ELSE err' = NoError /\ pc' = "built" /\ tables' # << >>]_vars
    /\ [](err = NoMonths => pc = "prepared" /\ tables = << >> /\ written = << >>)

\* the three sheets were read and merged, BD has no row, and the projection
\* has failed
C12_Witness ==
    /\ pc = "prepared"
    /\ err = NoMonths
    /\ xlsx.exists /\ xlsx.sheets["BD"].rows = << >>
    /\ df = << >>

(***************************************************************************)
(* C13: a seller with no budget in the compliance table.                   *)
(***************************************************************************)
\* the merged records of the seller with key k
RecordsOf(k) == SelectSeq(df, LAMBDA r : r["Vendedor_key"] = k)

\* the rows of the compliance table of the seller with key k
ComplianceRows(k) ==
    SelectSeq(TableNamed("KPI4_Compliance_Seller"), LAMBDA r : r["Vendedor_key"] = k)

SellerKeys == {df[i]["Vendedor_key"] : i \in DOMAIN df}

\* C13: a seller whose budget is null has a row in the compliance table, with
\* both compliance percentages null and with its accumulated revenue, months
\* with data, monthly average and annual projection computed.
C13_NullBudgetRowIsKept ==
    Built =>
        \A k \in SellerKeys :
            (\A i \in DOMAIN RecordsOf(k) : isna(RecordsOf(k)[i]["Presupuesto"])) =>
                /\ Len(ComplianceRows(k)) = 1
                /\ LET r == ComplianceRows(k)[1]
                       months == nunique(RecordsOf(k), "Month_Period")
                       total == FSum(Column(RecordsOf(k), Ingreso))
                   IN  /\ isna(r["Budget"])
                       /\ isna(r["% Budget_Compliance"])
                       /\ isna(r["% Projected_Compliance"])
                       /\ r["Accumulated_Revenue"] = total
                       /\ r["Months_With_Data"] = months
                       /\ r["Avg_Monthly_Revenue"] = FDiv(total, Q(months, 1))
                       /\ r["Annual_Projection"] = FMul(FDiv(total, Q(months, 1)), Q(12, 1))

(***************************************************************************)
(* C14 and C15: the seller portfolio.                                      *)
(***************************************************************************)
\* the customers of the seller with key k
CustomersOf(k) == {RecordsOf(k)[i]["No. Cliente"] : i \in DOMAIN RecordsOf(k)} \ {NaN}

\* the revenue of customer c with the seller with key k
CustomerRevenue(k, c) ==
    FSum(Column(SelectSeq(RecordsOf(k), LAMBDA r : r["No. Cliente"] = c), Ingreso))

RECURSIVE SumOfSquaredShares(_, _, _)
\* the sum over the customers in S of (customer revenue / total) squared
SumOfSquaredShares(k, S, total) ==
    IF S = {} THEN Q(0, 1)
    ELSE LET c == CHOOSE x \in S : TRUE
             share == FDiv(CustomerRevenue(k, c), total)
         IN  FAdd(FMul(share, share), SumOfSquaredShares(k, S \ {c}, total))

\* C14: for every seller of the portfolio summary, HHI is the sum over the
\* seller's customers of (customer revenue / accumulated revenue) squared and
\* lies in [0, 1]; it is 1 with a single customer and 1/N with N customers of
\* equal revenue.
C14_HHIIsSumOfSquaredShares ==
    Built =>
        \A i \in DOMAIN TableNamed("E3_Seller_Portfolio") :
            LET r == TableNamed("E3_Seller_Portfolio")[i]
                k == r["Vendedor_key"]
                hhi == r["HHI_Concentration"]
                N == Cardinality(CustomersOf(k))
            IN  /\ hhi = SumOfSquaredShares(k, CustomersOf(k), r["Accumulated_Revenue"])
                /\ FGe(hhi, Q(0, 1)) /\ FGe(Q(1, 1), hhi)
                /\ N = 1 => hhi = Q(1, 1)
                /\ (/\ N >= 1
                    /\ \A c, c2 \in CustomersOf(k) :
                          CustomerRevenue(k, c) = CustomerRevenue(k, c2))
                   => hhi = Q(1, N)

RECURSIVE SumOfRevenues(_, _)
\* the revenue of the customers in S with the seller with key k
SumOfRevenues(k, S) ==
    IF S = {} THEN Q(0, 1)
    ELSE LET c == CHOOSE x \in S : TRUE
         IN  FAdd(CustomerRevenue(k, c), SumOfRevenues(k, S \ {c}))

\* the revenue of the Top5 customers of highest revenue of the seller with
\* key k, of all of them when they are fewer: the greatest revenue that so
\* many customers have together
HighestRevenues(k) ==
    LET n == Min({Top5, Cardinality(CustomersOf(k))})
        sums == {SumOfRevenues(k, S) :
                    S \in {T \in SUBSET CustomersOf(k) : Cardinality(T) = n}}
    IN  CHOOSE m \in sums : \A x \in sums : ~FLt(m, x)

\* C15: for every seller of the portfolio summary, Top-5 revenue is the sum
\* of the revenues of its five customers of highest revenue (of all its
\* customers when fewer), Top-5 % is Top-5 revenue / accumulated revenue *
\* 100, and the flag is HIGH exactly when Top-5 % >= 70, NORMAL otherwise,
\* also when Top-5 % is null.
C15_Top5AndRiskFlag ==
    Built =>
        \A i \in DOMAIN TableNamed("E3_Seller_Portfolio") :
            LET r == TableNamed("E3_Seller_Portfolio")[i]
                k == r["Vendedor_key"]
                pct == r["% Top5_Revenue"]
            IN  /\ r["Top5_Customer_Revenue"] = HighestRevenues(k)
                /\ r["Accumulated_Revenue"] = FSum(Column(RecordsOf(k), Ingreso))
                /\ pct = FMul(FDiv(HighestRevenues(k), r["Accumulated_Revenue"]), Q(100, 1))
                /\ r["Risk (Concentration)"] \in {"HIGH", "NORMAL"}
                /\ r["Risk (Concentration)"] = "HIGH"
                      <=> (~isna(pct) /\ ~FLt(pct, Q(RiskThreshold, 1)))

\* a seller with more than Top5 customers, some of them tied at the cut-off,
\* whose Top-5 % is exactly the threshold: HIGH
C15_Witness ==
    /\ Built
    /\ \E i \in DOMAIN TableNamed("E3_Seller_Portfolio") :
          LET r == TableNamed("E3_Seller_Portfolio")[i]
          IN  /\ Cardinality(CustomersOf(r["Vendedor_key"])) > Top5
              /\ r["Top5_Customer_Revenue"] = Q(70, 1)
              /\ r["Accumulated_Revenue"] = Q(100, 1)
              /\ r["% Top5_Revenue"] = Q(RiskThreshold, 1)
              /\ r["Risk (Concentration)"] = "HIGH"

(***************************************************************************)
(* C16: the customers to reactivate                                        *)
(***************************************************************************)
RECURSIVE RevenuesOf(_, _)
\* the revenues of the customers in S with the seller with key k, in a row
RevenuesOf(k, S) ==
    IF S = {} THEN << >>
    ELSE LET c == CHOOSE x \in S : TRUE
         IN  <<CustomerRevenue(k, c)>> \o RevenuesOf(k, S \ {c})

\* the days from the last purchase of customer c with seller k to the latest
\* date of all the records
DaysDormant(k, c) ==
    ToOrdinal(MaxDate(Range(Column(df, "Fecha Operacion"))))
    - ToOrdinal(MaxDate(Range(Column(SelectSeq(RecordsOf(k), LAMBDA r : r["No. Cliente"] = c),
                                     "Fecha Operacion"))))

\* the pairs of seller key and customer of the reactivation table
ReactivationPairs ==
    {<<TableNamed("E3_Reactivate_Customers")[i]["Vendedor_key"],
       TableNamed("E3_Reactivate_Customers")[i]["No. Cliente"]>> :
        i \in DOMAIN TableNamed("E3_Reactivate_Customers")}

\* C16: a seller and a customer are in the reactivation table if and only if
\* the customer's revenue with the seller is at least the interpolated 80th
\* percentile of the revenues of that seller's customers and the customer's
\* last purchase is at least 30 days before the latest date of all records.
C16_ReactivationMembership ==
    Built =>
        /\ \A k \in SellerKeys \ {NaN} : \A c \in CustomersOf(k) :
              <<k, c>> \in ReactivationPairs
                  <=> /\ FGe(CustomerRevenue(k, c), quantile80(RevenuesOf(k, CustomersOf(k))))
                      /\ DaysDormant(k, c) >= DormantDays
        /\ \A p \in ReactivationPairs : p[1] \in SellerKeys \ {NaN} /\ p[2] \in CustomersOf(p[1])
        /\ Cardinality(ReactivationPairs) = Len(TableNamed("E3_Reactivate_Customers"))

\* the revenues of all the pairs of seller and customer, in a row
AllRevenues ==
    LET RECURSIVE Over(_)
        Over(K) == IF K = {} THEN << >>
                   ELSE LET k == CHOOSE x \in K : TRUE
                        IN  RevenuesOf(k, CustomersOf(k)) \o Over(K \ {k})
    IN  Over(SellerKeys \ {NaN})

\* a listed customer whose revenue is below the 80th percentile of all the
\* customers of all sellers, beside a top customer of its seller that is not
\* listed because it bought within the last 30 days
C16_Witness ==
    /\ Built
    /\ \E p \in ReactivationPairs :
          FLt(CustomerRevenue(p[1], p[2]), quantile80(AllRevenues))
    /\ \E k \in SellerKeys \ {NaN} : \E c \in CustomersOf(k) :
          /\ FGe(CustomerRevenue(k, c), quantile80(RevenuesOf(k, CustomersOf(k))))
          /\ DaysDormant(k, c) < DormantDays
          /\ <<k, c>> \notin ReactivationPairs

(***************************************************************************)
(* C17: the sheet names of the output file                                 *)
(***************************************************************************)
\* the sheet names written, in the order written
WrittenNames == [i \in DOMAIN written |-> written[i].sheet]

\* C17: whatever the names of the tables handed to export_excel, the sheet
\* names written are pairwise distinct, each is at most 31 characters long and
\* none contains a forward slash; without an error every table has its sheet.
C17_SheetNamesUniqueAndShort ==
    /\ \A i, j \in DOMAIN written : i # j => WrittenNames[i] # WrittenNames[j]
    /\ \A i \in DOMAIN written :
          /\ Len(WrittenNames[i]) <= SheetNameLimit
          /\ \A n \in 1..Len(WrittenNames[i]) : SubSeq(WrittenNames[i], n, n) # "/"
    /\ pc = "exported" => Len(written) = Len(tables)

\* an export of two tables whose distinct names are the same in their first 31
\* characters, and of a third whose name is the one the second would be given
C17_Witness ==
    /\ pc = "exported"
    /\ \E i, j \in DOMAIN tables :
          /\ i < j
          /\ tables[i].name # tables[j].name
          /\ Len(tables[j].name) > SheetNameLimit
          /\ Prefix(tables[i].name, SheetNameLimit) = Prefix(tables[j].name, SheetNameLimit)
          /\ Len(written[j].sheet) = SheetNameLimit
          /\ written[j].sheet # written[i].sheet
          /\ \E k \in DOMAIN tables : k > j /\ written[k].sheet # tables[k].name
                                      /\ Len(tables[k].name) <= SheetNameLimit
                                      /\ \A n \in 1..Len(tables[k].name) :
                                            SubSeq(tables[k].name, n, n) \notin {"/", " "}

(***************************************************************************)
(* C18: a run writes the whole output file or nothing                      *)
(***************************************************************************)
\* the phases of run_analysis, each with the one that follows it
PhaseOrder ==
    { <<"start", "loaded">>, <<"loaded", "prepared">>, <<"prepared", "built">>,
      <<"built", "exported">> }

\* C18: the phases of a run complete in the order load, prepare (validate and
\* reconcile), build (aggregate and assemble), export, each one started only
\* when the one before it has succeeded; a run that raised an error has
\* written nothing, and a run that completed has written one file that holds
\* every table of the registry, in the registry's order.
C18_AllOrNothing ==
    /\ [][ /\ err = NoError
           /\ pc' # pc => (err' = NoError /\ <<pc, pc'>> \in PhaseOrder)
           /\ err' # NoError => pc' = pc ]_vars
    /\ [](err # NoError => written = << >>)
    /\ [](written # << >> => pc = "exported")
    /\ [](pc = "exported" =>
             /\ err = NoError
             /\ tables # << >>
             /\ Len(written) = Len(tables)
             /\ \A i \in DOMAIN tables :
                   written[i] = [sheet |-> tables[i].name, rows |-> tables[i].rows])

\* a completed run whose file holds every table, rows included
C18_Witness ==
    /\ pc = "exported"
    /\ err = NoError
    /\ Len(written) = Len(tables)
    /\ \A i \in DOMAIN written : written[i].sheet = tables[i].name
    /\ \E i \in DOMAIN written : i > 1 /\ written[i].rows # << >>

(***************************************************************************)
(* C19: the table registry                                                 *)
(***************************************************************************)
\* the names of the registry, in order
RegistryNames == [i \in DOMAIN tables |-> tables[i].name]

\* C19: when build_all_tables succeeds the registry has exactly twelve
\* tables of distinct names: the merged base first, with every record and
\* field of the prepared base but the month and quarter period fields, the
\* display texts Month and Quarter kept; then the four monthly tables, the
\* three quarterly tables, the projection and compliance tables and the
\* portfolio and reactivation tables, each as its reducer returned it.
C19_RegistryContentAndOrder ==
    Built =>
        /\ RegistryNames =
              << "Merged_Base",
                 "KPI1_Monthly_Total", "KPI1_Monthly_Region", "KPI1_Monthly_City",
                 "KPI1_Monthly_Seller",
                 "KPI2_Quarterly_Total", "KPI2_Quarterly_Region", "KPI2_Quarterly_Seller",
                 "KPI3_Projection_Total", "KPI4_Compliance_Seller",
                 "E3_Seller_Portfolio", "E3_Reactivate_Customers" >>
        /\ Len(tables) = 12
        /\ \A i, j \in DOMAIN tables : i # j => tables[i].name # tables[j].name
        /\ Len(tables[1].rows) = Len(df)
        /\ \A i \in DOMAIN df :
              /\ DOMAIN tables[1].rows[i] = (DOMAIN df[i]) \ {"Month_Period", "Quarter_Period"}
              /\ {"Month", "Quarter"} \subseteq DOMAIN tables[1].rows[i]
              /\ \A c \in DOMAIN tables[1].rows[i] : tables[1].rows[i][c] = df[i][c]
        /\ SubSeq(tables, 2, 5) = kpi_monthly_revenue(df)
        /\ SubSeq(tables, 6, 8) = kpi_quarterly_growth(df)
        /\ SubSeq(tables, 9, 10) = kpi_projection(df).tables
        /\ SubSeq(tables, 11, 12) = exercise_3_free_analysis(df)

\* a registry built from a merged base that has records with period fields
C19_Witness ==
    /\ pc = "built"
    /\ err = NoError
    /\ Len(df) > 1
    /\ \A i \in DOMAIN df : {"Month_Period", "Quarter_Period"} \subseteq DOMAIN df[i]
    /\ Len(tables) = 12
    /\ Len(tables[1].rows) = Len(df)

(***************************************************************************)
(* C20: the order of the monthly tables                                    *)
(***************************************************************************)
RECURSIVE Precedes(_, _, _, _)
\* row a is before row b in the ascending order of the text fields `by`,
\* compared from field i on
Precedes(by, a, b, i) ==
    IF i > Len(by) THEN FALSE
    ELSE IF a[by[i]] = b[by[i]] THEN Precedes(by, a, b, i + 1)
    ELSE StrLt(a[by[i]], b[by[i]])

\* no row of the table is before a row above it
Ascending(name, by) ==
    \A i, j \in DOMAIN TableNamed(name) :
        i < j => ~Precedes(by, TableNamed(name)[j], TableNamed(name)[i], 1)

\* the monthly tables that do not depend on the order of the seller's fields
MonthlyTablesAscending ==
    /\ Ascending("KPI1_Monthly_Total", <<"Month">>)
    /\ Ascending("KPI1_Monthly_Region", <<"Month", "REGION">>)
    /\ Ascending("KPI1_Monthly_City", <<"Month", "REGION", "CIUDAD">>)

\* C20 as stated: each monthly table is sorted ascending by month and then by
\* its grouping fields: region; region then city; region, city then seller
\* key.
C20_SortedByListedKeys ==
    Built =>
        /\ MonthlyTablesAscending
        /\ Ascending("KPI1_Monthly_Seller", <<"Month", "REGION", "CIUDAD", "Vendedor_key">>)

\* C20 amended: the total, region and city tables are sorted ascending by
\* month and then by region, and by region then city; the seller table is
\* sorted ascending by month and then by seller key, whatever the seller's
\* region and city.
C20_SellerTableSortedByKey ==
    Built =>
        /\ MonthlyTablesAscending
        /\ Ascending("KPI1_Monthly_Seller", <<"Month", "Vendedor_key">>)

\* a month with two sellers whose keys are in the opposite order of their
\* cities, in a region table and a city table of more than one row
C20_Witness ==
    /\ Built
    /\ Len(TableNamed("KPI1_Monthly_Region")) > 1
    /\ Len(TableNamed("KPI1_Monthly_City")) > 1
    /\ \E i, j \in DOMAIN TableNamed("KPI1_Monthly_Seller") :
          LET a == TableNamed("KPI1_Monthly_Seller")[i]
              b == TableNamed("KPI1_Monthly_Seller")[j]
          IN  /\ i < j
              /\ a["Month"] = b["Month"]
              /\ StrLt(a["Vendedor_key"], b["Vendedor_key"])
              /\ Precedes(<<"REGION", "CIUDAD">>, b, a, 1)

(***************************************************************************)
(* C21: the attributes of a seller                                         *)
(***************************************************************************)
\* C21: two records of the merged base with the same seller key have the
\* same city, the same region and the same budget, each possibly null; so
\* the compliance table, grouped by seller key, region and city, has at most
\* one row for a seller key, and its budget is the budget of every record of
\* that key.
C21_AttributesFunctionOfKey ==
    /\ \A i, j \in DOMAIN df :
          df[i]["Vendedor_key"] = df[j]["Vendedor_key"] =>
              /\ df[i]["CIUDAD"] = df[j]["CIUDAD"]
              /\ df[i]["REGION"] = df[j]["REGION"]
              /\ df[i]["Presupuesto"] = df[j]["Presupuesto"]
    /\ Built =>
          \A k \in SellerKeys :
              /\ Len(ComplianceRows(k)) <= 1
              /\ \A g \in DOMAIN ComplianceRows(k) : \A i \in DOMAIN RecordsOf(k) :
                    ComplianceRows(k)[g]["Budget"] = RecordsOf(k)[i]["Presupuesto"]

\* two records with different spellings of one seller, who has two directory
\* rows with different cities and two budget rows with different amounts, and
\* one row in the compliance table
C21_Witness ==
    /\ pc = "built"
    /\ \E i, j \in DOMAIN df :
          /\ i # j
          /\ df[i]["Vendedor"] # df[j]["Vendedor"]
          /\ df[i]["Vendedor_key"] = df[j]["Vendedor_key"]
          /\ Len(ComplianceRows(df[i]["Vendedor_key"])) = 1
          /\ \E j1, j2 \in DOMAIN cdrg.rows :
                /\ DirKey(j1) = df[i]["Vendedor_key"]
                /\ DirKey(j2) = df[i]["Vendedor_key"]
                /\ cdrg.rows[j1]["CIUDAD"] # cdrg.rows[j2]["CIUDAD"]
          /\ \E k1, k2 \in DOMAIN pres.rows :
                /\ PresKey(k1) = df[i]["Vendedor_key"]
                /\ PresKey(k2) = df[i]["Vendedor_key"]
                /\ to_numeric(pres.rows[k1]["Presupuesto"]) #
                       to_numeric(pres.rows[k2]["Presupuesto"])

(***************************************************************************)
(* C22: growth across quarters without records                             *)
(***************************************************************************)
\* the records of the merged base in the group of a quarterly row: all of
\* them, those of its region, those of its seller
GroupRecords(keys, row) == SelectSeq(df, LAMBDA r : KeyOf(r, keys) = KeyOf(row, keys))

\* the calendar quarters in which the records have one
QuartersWithRecords(recs) == {recs[i]["Quarter_Period"] : i \in DOMAIN recs}

\* the revenue of the records in calendar quarter q
RevenueInQuarter(recs, q) ==
    FSum(Column(SelectSeq(recs, LAMBDA r : r["Quarter_Period"] = q), Ingreso))

\* the growth of a quarterly row whose group has the records recs: against
\* the latest earlier quarter with records, null when there is none
GrowthAcrossGaps(recs, row) ==
    LET q == CHOOSE p \in QuartersWithRecords(recs) : QuarterStr(p) = row["Quarter"]
        earlier == {p \in QuartersWithRecords(recs) : p < q}
    IN  IF earlier = {} THEN NaNf
        ELSE ClaimedGrowth(RevenueInQuarter(recs, q), RevenueInQuarter(recs, Max(earlier)))

\* C22: every row of a quarterly table is of a quarter in which its group
\* (all records, a region, a seller) has records, a group has one row for
\* each such quarter and none for a quarter without records, and the growth
\* of a row is computed against the revenue of the nearest earlier quarter in
\* which the group has records, however many calendar quarters lie between.
C22_GrowthAgainstNearestEarlierQuarter ==
    Built =>
        \A t \in QuarterlyTables :
            \A i \in DOMAIN TableNamed(t[1]) :
                /\ \E p \in QuartersWithRecords(GroupRecords(t[2], TableNamed(t[1])[i])) :
                      QuarterStr(p) = TableNamed(t[1])[i]["Quarter"]
                /\ Cardinality({j \in DOMAIN TableNamed(t[1]) :
                        KeyOf(TableNamed(t[1])[j], t[2]) = KeyOf(TableNamed(t[1])[i], t[2])})
                     = Cardinality(QuartersWithRecords(GroupRecords(t[2], TableNamed(t[1])[i])))
                /\ TableNamed(t[1])[i]["% Quarterly_Growth"] =
                      GrowthAcrossGaps(GroupRecords(t[2], TableNamed(t[1])[i]),
                                       TableNamed(t[1])[i])

\* in every quarterly table a row with a growth that is neither null nor
\* infinite, two or more calendar quarters after the previous row of its group
C22_Witness ==
    /\ Built
    /\ \A t \in QuarterlyTables :
          \E i \in DOMAIN TableNamed(t[1]) :
              LET row == TableNamed(t[1])[i]
                  qs == QuartersWithRecords(GroupRecords(t[2], row))
              IN  /\ row["% Quarterly_Growth"].k = "num"
                  /\ \E p, q \in qs :
                        /\ QuarterStr(q) = row["Quarter"]
                        /\ p + 1 < q
                        /\ \A x \in qs : ~(p < x /\ x < q)

(***************************************************************************)
(* C23: the portfolios of at most five customers                           *)
(***************************************************************************)
\* the seller with key k has at most Top5 customers, a customer in every
\* record and an accumulated revenue that is not 0
SmallPortfolio(k) ==
    /\ Cardinality(CustomersOf(k)) <= Top5
    /\ \A i \in DOMAIN RecordsOf(k) : RecordsOf(k)[i]["No. Cliente"] # NaN
    /\ FSum(Column(RecordsOf(k), Ingreso)) # Q(0, 1)

\* C23: a seller of the portfolio summary with at most five customers, a
\* customer in every record and an accumulated revenue that is not 0 has a
\* Top-5 revenue equal to its accumulated revenue, a Top-5 % of 100 and the
\* flag HIGH, however the revenue is spread over its customers.
C23_SmallPortfolioIsHigh ==
    Built =>
        \A i \in DOMAIN TableNamed("E3_Seller_Portfolio") :
            LET r == TableNamed("E3_Seller_Portfolio")[i]
            IN  SmallPortfolio(r["Vendedor_key"]) =>
                    /\ r["Accumulated_Revenue"] =
                          FSum(Column(RecordsOf(r["Vendedor_key"]), Ingreso))
                    /\ r["Top5_Customer_Revenue"] = r["Accumulated_Revenue"]
                    /\ r["% Top5_Revenue"] = Q(100, 1)
                    /\ r["Risk (Concentration)"] = "HIGH"

\* a seller with exactly Top5 customers of unequal revenues, flagged HIGH
C23_Witness ==
    /\ Built
    /\ \E i \in DOMAIN TableNamed("E3_Seller_Portfolio") :
          LET r == TableNamed("E3_Seller_Portfolio")[i]
              k == r["Vendedor_key"]
          IN  /\ SmallPortfolio(k)
              /\ Cardinality(CustomersOf(k)) = Top5
              /\ \E c1, c2 \in CustomersOf(k) : CustomerRevenue(k, c1) # CustomerRevenue(k, c2)
              /\ r["% Top5_Revenue"] = Q(100, 1)
              /\ r["Risk (Concentration)"] = "HIGH"

=============================================================================
